---- MODULE Spec2Model ----
(***************************************************************************)
(* Model of the document ingestion pipeline of                             *)
(* src/src/utils/documentParsing.ts: the quality scorer, the format        *)
(* sniffing of parseDocument, the DOCX / PDF / TXT / OCR backends and the  *)
(* orchestrator with its timeout.                                          *)
(*                                                                         *)
(* A text is a sequence of one-character strings.  "R" stands for U+FFFD   *)
(* and "C" for a control character of [\x00-\x08\x0E-\x1F].  A score is an *)
(* exact fraction [num, den] in lowest terms; the code computes the same   *)
(* value in IEEE doubles.                                                  *)
(***************************************************************************)
EXTENDS Integers, Sequences, FiniteSets, TLC

\* ------------------------------------------------------------------------
\* Characters and texts
\* ------------------------------------------------------------------------
ReplacementChar == "R"
ControlChar == "C"
Whitespace == {" ", "\n", "\t"}
LetterChars ==
  {"a", "b", "c", "d", "e", "f", "g", "h", "i", "j", "k", "l", "m", "n",
   "o", "p", "q", "r", "s", "t", "u", "v", "w", "x", "y", "z",
   "D", "F", "O"}

EmptyText == <<>>

\* (text.match(/[chars]/g) || []).length
CountIn(text, chars) == Cardinality({i \in 1..Len(text) : text[i] \in chars})

\* text.startsWith(pat) at position i
MatchAt(text, pat, i) ==
  /\ i + Len(pat) - 1 <= Len(text)
  /\ \A k \in 1..Len(pat) : text[i + k - 1] = pat[k]

\* text.includes(pat)
Includes(text, pat) == \E i \in 1..Len(text) : MatchAt(text, pat, i)

\* String.prototype.trim
Trim(text) ==
  LET blankUpTo(i) == \A j \in 1..i : text[j] \in Whitespace
      blankFrom(i) == \A j \in i..Len(text) : text[j] \in Whitespace
  IN IF blankUpTo(Len(text)) THEN <<>>
     ELSE SubSeq(text,
                 CHOOSE i \in 1..Len(text) : text[i] \notin Whitespace /\ blankUpTo(i - 1),
                 CHOOSE i \in 1..Len(text) : text[i] \notin Whitespace /\ blankFrom(i + 1))

\* the positions where a maximal run of whitespace starts
WhitespaceRuns(text) ==
  {i \in 1..Len(text) : text[i] \in Whitespace /\ (i = 1 \/ text[i - 1] \notin Whitespace)}

\* text.split(/\s+/).length: one piece more than there are runs of whitespace
\* (a leading or a trailing run yields an empty piece, and "" yields [""])
SplitCount(text) == Cardinality(WhitespaceRuns(text)) + 1

\* tokens.reduce((acc, t) => acc + t.length, 0): the pieces hold every
\* character that is not whitespace
SplitChars(text) == Len(text) - CountIn(text, Whitespace)

\* ------------------------------------------------------------------------
\* Scores: exact fractions in lowest terms
\* ------------------------------------------------------------------------
RECURSIVE Gcd(_, _)
Gcd(a, b) == IF b = 0 THEN a ELSE Gcd(b, a % b)

Frac(n, d) ==
  IF n = 0 THEN [num |-> 0, den |-> 1]
  ELSE [num |-> n \div Gcd(n, d), den |-> d \div Gcd(n, d)]

ZeroScore == Frac(0, 1)
ScoreGE(a, b) == a.num * b.den >= b.num * a.den
ScoreGT(a, b) == a.num * b.den > b.num * a.den
ScoreLT(a, b) == a.num * b.den < b.num * a.den

\* ------------------------------------------------------------------------
\* QualityScorer
\* ------------------------------------------------------------------------
PdfInternalTokens ==
  { <<"/", "O", "b", "j">>,
    <<"/", "s", "t", "r", "e", "a", "m">>,
    <<"/", "F", "l", "a", "t", "e", "D", "e", "c", "o", "d", "e">>,
    <<"/", "e", "n", "d", "o", "b", "j">> }

\* FixedPenalties without the PDF-internals penalty
FixedPenaltiesNoTokens(text) ==
  LET len == Len(text)
      tooLongTokens == IF SplitChars(text) > 40 * SplitCount(text) THEN 20 ELSE 0
      lowLetterRatio == IF 5 * CountIn(text, LetterChars) < len THEN 20 ELSE 0
      lowWhitespaceRatio == IF 20 * CountIn(text, Whitespace) < len THEN 10 ELSE 0
  IN tooLongTokens + lowLetterRatio + lowWhitespaceRatio

\* The fixed penalties, in hundredths.
FixedPenalties(text) ==
  LET len == Len(text)
      pdfInternals == IF \E p \in PdfInternalTokens : Includes(text, p) THEN 25 ELSE 0
      tooLongTokens == IF SplitChars(text) > 40 * SplitCount(text) THEN 20 ELSE 0
      lowLetterRatio == IF 5 * CountIn(text, LetterChars) < len THEN 20 ELSE 0
      lowWhitespaceRatio == IF 20 * CountIn(text, Whitespace) < len THEN 10 ELSE 0
  IN pdfInternals + tooLongTokens + lowLetterRatio + lowWhitespaceRatio

\* RawScoreNum crediting replacement characters instead of charging them
RawScoreNumInverted(text) ==
  100 * Len(text) + 60 * CountIn(text, {ReplacementChar})
    - 20 * CountIn(text, {ControlChar}) - 2 * FixedPenalties(text) * Len(text)

\* score = 1 - (0.6*repl/len + 0.2*ctrl/len + fixed), over the denominator 100*len
RawScoreNum(text) ==
  100 * Len(text) - 60 * CountIn(text, {ReplacementChar})
    - 20 * CountIn(text, {ControlChar}) - FixedPenalties(text) * Len(text)

Clamp(lo, hi, x) == IF x < lo THEN lo ELSE IF x > hi THEN hi ELSE x

scoreQuality(text) ==
  IF text = <<>> THEN ZeroScore
  ELSE Frac(Clamp(0, 100 * Len(text), RawScoreNum(text)), 100 * Len(text))

countWords(text) ==
  IF text = <<>> THEN 0 ELSE SplitCount(Trim(text))


\* ------------------------------------------------------------------------
\* Text helpers used by the backends
\* ------------------------------------------------------------------------
\* items.join(sep), by halves
RECURSIVE Join(_, _)
Join(items, sep) ==
  IF items = <<>> THEN <<>>
  ELSE IF Len(items) = 1 THEN items[1]
  ELSE LET h == Len(items) \div 2
       IN Join(SubSeq(items, 1, h), sep) \o sep \o Join(SubSeq(items, h + 1, Len(items)), sep)

\* the characters marked to be kept, in order: marked[i] = <<char, keep>>
Kept(marked) ==
  LET kept == SelectSeq(marked, LAMBDA p : p[2])
  IN [i \in 1..Len(kept) |-> kept[i][1]]

\* text.replace(/pat/g, c) for a literal pattern that cannot overlap itself
\* and a one-character replacement
ReplaceAll(text, pat, c) ==
  LET starts == {i \in 1..Len(text) : MatchAt(text, pat, i)}
      inside(i) == \E s \in starts : s < i /\ i <= s + Len(pat) - 1
  IN Kept([i \in 1..Len(text) |->
             IF i \in starts THEN <<c, TRUE>> ELSE <<text[i], ~inside(i)>>])

\* text.replace(/\s+/g, ' ')
CollapseWhitespace(text) ==
  Kept([i \in 1..Len(text) |->
          IF text[i] \in Whitespace THEN <<" ", i \in WhitespaceRuns(text)>>
          ELSE <<text[i], TRUE>>])

\* the entity decoding of extractDocxWithoutMammoth, in the code's order
DecodeEntities(content) ==
  LET lt == ReplaceAll(content, <<"&", "l", "t", ";">>, "<")
      gt == ReplaceAll(lt, <<"&", "g", "t", ";">>, ">")
      amp == ReplaceAll(gt, <<"&", "a", "m", "p", ";">>, "&")
      quot == ReplaceAll(amp, <<"&", "q", "u", "o", "t", ";">>, "\"")
  IN ReplaceAll(quot, <<"&", "a", "p", "o", "s", ";">>, "'")

\* n copies of word, joined by single spaces
Rep(word, n) ==
  LET period == Len(word) + 1
  IN [i \in 1..(n * period - 1) |-> IF i % period = 0 THEN " " ELSE word[i % period]]

\* ------------------------------------------------------------------------
\* ParseResult
\* ------------------------------------------------------------------------
NoError == [present |-> FALSE, code |-> "", actionable |-> FALSE]
Err(code, actionable) == [present |-> TRUE, code |-> code, actionable |-> actionable]

Failure(source, code, actionable) ==
  [text |-> EmptyText, score |-> ZeroScore, source |-> source,
   error |-> Err(code, actionable), fallbackMethod |-> FALSE]

\* fallbackMethod: meta.fallbackMethod, FALSE when meta carries no such flag
Extracted(text, source) ==
  [text |-> text, score |-> scoreQuality(text), source |-> source, error |-> NoError,
   fallbackMethod |-> FALSE]

\* ------------------------------------------------------------------------
\* Files: a name is the sequence of its dot-separated pieces (name.split('.'))
\* ------------------------------------------------------------------------
toLowerCase(s) ==
  CASE s = "DOCX" -> "docx"
    [] s = "DOC" -> "doc"
    [] s = "PDF" -> "pdf"
    [] s = "TXT" -> "txt"
    [] OTHER -> s

\* file.name.split('.').pop()?.toLowerCase()
Extension(name) == toLowerCase(name[Len(name)])

MsWord == "application/msword"
OoxmlWord == "application/vnd.openxmlformats-officedocument.wordprocessingml.document"
OctetStream == "application/octet-stream"
ImageTypes == {"image/jpeg", "image/png"}

\* isLegacyDoc without its media-type test
isLegacyDocByExtension(file) == Extension(file.name) = "doc"

isLegacyDoc(file) ==
  \/ file.type = MsWord
  \/ Extension(file.name) = "doc"

\* byte.toString(16).padStart(2, '0')
HexDigit(n) ==
  CASE n = 10 -> "a" [] n = 11 -> "b" [] n = 12 -> "c"
    [] n = 13 -> "d" [] n = 14 -> "e" [] n = 15 -> "f"
    [] OTHER -> ToString(n)

HexByte(b) == <<HexDigit(b \div 16), HexDigit(b % 16)>>

RECURSIVE HexString(_)
HexString(bytes) ==
  IF bytes = <<>> THEN <<>> ELSE HexByte(Head(bytes)) \o HexString(Tail(bytes))

\* hasValidDocxSignature comparing only the two bytes "PK"
hasValidDocxSignaturePrefix(bytes) ==
  HexString(SubSeq(bytes, 1, IF Len(bytes) < 2 THEN Len(bytes) ELSE 2))
    = <<"5", "0", "4", "b">>

\* bytes: the file's first bytes (buffer.slice(0, 4) keeps at most four)
hasValidDocxSignature(bytes) ==
  HexString(SubSeq(bytes, 1, IF Len(bytes) < 4 THEN Len(bytes) ELSE 4))
    = <<"5", "0", "4", "b", "0", "3", "0", "4">>


\* ------------------------------------------------------------------------
\* Backends.  A thrown error is the set of the keywords that
\* String(error).toLowerCase() contains.  Every backend yields
\* [result, steps]: the ParseResult and the external calls it made, in order.
\* ------------------------------------------------------------------------
Keywords == {"zip", "archive", "password", "protected", "encrypted", "permission"}

Out(result, steps) == [result |-> result, steps |-> steps]

\* extractDocxWithoutMammoth: [ok, text]; ok = FALSE when it throws.
\* zip.runs are the contents of the <w:t> runs of word/document.xml.
extractDocxWithoutMammoth(bytes, zip) ==
  IF ~hasValidDocxSignature(bytes) THEN [ok |-> FALSE, text |-> EmptyText]
  ELSE IF ~zip.loadOk THEN [ok |-> FALSE, text |-> EmptyText]
  ELSE IF ~zip.hasDocumentXml THEN [ok |-> FALSE, text |-> EmptyText]
  ELSE [ok |-> TRUE,
        text |-> Trim(CollapseWhitespace(
                   Join([i \in 1..Len(zip.runs) |-> DecodeEntities(zip.runs[i])],
                        <<" ">>)))]

LegacyDocResult == Failure("doc-not-supported", "LEGACY_DOC_FORMAT", TRUE)

\* DocxFallback returning whatever the ZIP strategy found, without the
\* closing failure
DocxFallbackSilent(env, steps) ==
  LET zipped == extractDocxWithoutMammoth(env.bytes, env.zip)
  IN Out([Extracted(zipped.text, "direct-zip-extraction") EXCEPT !.fallbackMethod = TRUE],
         Append(steps, <<"extractDocxWithoutMammoth", 0>>))

\* DocxFallback returning the ZIP strategy's text tagged as the primary's
DocxFallbackUntagged(env, steps) ==
  LET zipped == extractDocxWithoutMammoth(env.bytes, env.zip)
      steps2 == Append(steps, <<"extractDocxWithoutMammoth", 0>>)
  IN IF zipped.ok /\ zipped.text # <<>> /\ Trim(zipped.text) # <<>>
     THEN Out(Extracted(zipped.text, "mammoth"), steps2)
     ELSE Out(Failure("docx-extraction-failed", "DOCX_NO_TEXT_EXTRACTED", TRUE), steps2)

\* The second strategy of parseDocx and its closing failure (lines 331-363).
DocxFallback(env, steps) ==
  LET zipped == extractDocxWithoutMammoth(env.bytes, env.zip)
      steps2 == Append(steps, <<"extractDocxWithoutMammoth", 0>>)
  IN IF zipped.ok /\ zipped.text # <<>> /\ Trim(zipped.text) # <<>>
     THEN Out([Extracted(zipped.text, "direct-zip-extraction") EXCEPT !.fallbackMethod = TRUE],
              steps2)
     ELSE Out(Failure("docx-extraction-failed", "DOCX_NO_TEXT_EXTRACTED", TRUE), steps2)

\* mammothLoaded: whether the module-level mammoth is set when the call starts
parseDocx(file, mammothLoaded, env) ==
  IF isLegacyDoc(file) THEN Out(LegacyDocResult, <<>>)
  ELSE IF ~env.bufferOk
  THEN Out(Failure("docx-parse-failed", "DOCX_GENERAL_ERROR", FALSE), <<>>)
  ELSE IF ~hasValidDocxSignature(env.bytes)
  THEN Out(Failure("invalid-docx-signature", "INVALID_DOCX_SIGNATURE", TRUE), <<>>)
  ELSE
    LET importSteps ==
          IF mammothLoaded THEN <<>>
          ELSE IF env.importOk THEN << <<"import mammoth", 0>> >>
          ELSE << <<"import mammoth", 0>>, <<"mammoth unavailable", 0>> >>
        available == mammothLoaded \/ env.importOk
        steps == IF available
                 THEN Append(importSteps, <<"mammoth.extractRawText", 0>>)
                 ELSE importSteps
        m == env.mammoth
    IN IF available /\ m.throws /\ m.kw \cap {"zip", "archive"} # {}
       THEN Out(Failure("mammoth-zip-error", "DOCX_NOT_VALID_ZIP", TRUE), steps)
       ELSE IF available /\ m.throws /\ m.kw \cap {"password", "protected"} # {}
       THEN Out(Failure("mammoth-protected-doc", "DOCX_PASSWORD_PROTECTED", TRUE), steps)
       ELSE IF available /\ ~m.throws /\ m.text # <<>> /\ Trim(m.text) # <<>>
       THEN Out(Extracted(m.text, "mammoth"), steps)
       ELSE DocxFallback(env, steps)

\* the module-level mammoth after parseDocx (line 265)
MammothAfterDocx(file, mammothLoaded, env) ==
  IF isLegacyDoc(file) \/ ~env.bufferOk \/ ~hasValidDocxSignature(env.bytes)
  THEN mammothLoaded
  ELSE mammothLoaded \/ env.importOk

\* pdfjs: "real", "mock" (lines 21-25: getDocument throws) or "none"
\* (no getDocument).  pdf.open: [throws, kw, encrypted, pages], pages a
\* sequence of pages, a page the sequence of its text items;
\* pdf.badPage: the page whose getPage throws (0: none).
PdfOpen(pdfjs, pdf) ==
  IF pdfjs = "mock" THEN [throws |-> TRUE, kw |-> {}, encrypted |-> FALSE, pages |-> <<>>]
  ELSE pdf.open

\* isPdfEncrypted without its catch clause reading the exception
isPdfEncryptedFlagOnly(pdfjs, pdf) ==
  IF pdfjs = "none" THEN FALSE
  ELSE LET d == PdfOpen(pdfjs, pdf)
       IN IF d.throws THEN FALSE ELSE d.encrypted

isPdfEncrypted(pdfjs, pdf) ==
  IF pdfjs = "none" THEN FALSE
  ELSE LET d == PdfOpen(pdfjs, pdf)
       IN IF d.throws THEN d.kw \cap {"password", "encrypted", "permission"} # {}
          ELSE d.encrypted

Min(a, b) == IF a < b THEN a ELSE b
Max(a, b) == IF a > b THEN a ELSE b

\* the sampling loop of pdfHasTextLayer from page i on: [has, steps]
RECURSIVE TextLayerFrom(_, _, _, _, _)
TextLayerFrom(pages, badPage, i, wordCount, steps) ==
  IF i > Min(Len(pages), 3) THEN [has |-> wordCount > 0, steps |-> steps]
  ELSE IF i = badPage THEN [has |-> FALSE, steps |-> Append(steps, <<"getPage", i>>)]
  ELSE LET seen == wordCount + Len(pages[i])
           steps2 == Append(steps, <<"getPage", i>>)
       IN IF seen > 20 THEN [has |-> TRUE, steps |-> steps2]
          ELSE TextLayerFrom(pages, badPage, i + 1, seen, steps2)

pdfHasTextLayer(pdfjs, pdf) ==
  IF pdfjs = "none" THEN [has |-> FALSE, steps |-> <<>>]
  ELSE LET d == PdfOpen(pdfjs, pdf)
       IN IF d.throws THEN [has |-> FALSE, steps |-> << <<"getDocument", 0>> >>]
          ELSE TextLayerFrom(d.pages, pdf.badPage, 1, 0, << <<"getDocument", 0>> >>)

\* the page walk of parsePdf: fullText of pages 1..n
RECURSIVE PagesText(_, _)
PagesText(pages, n) ==
  IF n = 0 THEN <<>>
  ELSE PagesText(pages, n - 1) \o Join(pages[n], <<" ">>) \o <<"\n", "\n">>

PdfErrorResult(kw) ==
  IF kw \cap {"password", "encrypted"} # {}
  THEN Failure("pdf-encrypted", "PDF_ENCRYPTED", TRUE)
  ELSE Failure("pdf.js-failed", "PDF_PARSE_ERROR", FALSE)

\* lines 446-481: what the page walk of parsePdf records for a document d
\* it walks to the end: the n of the entries of pages, meta.extractedPages
\* and meta.pageCount (opts.maxPages || Infinity at line 449)
PdfWalk(opts, d) ==
  LET numPages == IF opts.maxPages = 0 THEN Len(d.pages)
                  ELSE Min(Len(d.pages), opts.maxPages)
  IN [pages |-> [i \in 1..numPages |-> i],
      extractedPages |-> numPages,
      pageCount |-> Len(d.pages)]

parsePdf(file, opts, pdfjs, pdf) ==
  IF pdfjs = "none"
  THEN Out(Failure("pdfjs-not-installed", "MISSING_LIBRARY", FALSE), <<>>)
  ELSE IF ~pdf.bufferOk THEN Out(PdfErrorResult({}), <<>>)
  ELSE IF isPdfEncrypted(pdfjs, pdf)
  THEN Out(Failure("pdf-encrypted", "PDF_ENCRYPTED", TRUE), << <<"getDocument", 0>> >>)
  ELSE
    LET layer == pdfHasTextLayer(pdfjs, pdf)
        steps == << <<"getDocument", 0>> >> \o layer.steps
        d == PdfOpen(pdfjs, pdf)
        numPages == PdfWalk(opts, d).extractedPages
        walked == IF pdf.badPage \in 1..numPages THEN pdf.badPage ELSE numPages
        walkSteps == steps \o << <<"getDocument", 0>> >>
                       \o [i \in 1..walked |-> <<"getPage", i>>]
    IN IF ~layer.has
       THEN Out(Failure("pdf-no-text-layer", "PDF_NO_TEXT_LAYER", opts.enableOcr), steps)
       ELSE IF d.throws THEN Out(PdfErrorResult(d.kw), Append(steps, <<"getDocument", 0>>))
       ELSE IF pdf.badPage \in 1..numPages THEN Out(PdfErrorResult({}), walkSteps)
       ELSE Out(Extracted(PagesText(d.pages, numPages), "pdf.js"), walkSteps)

\* parseTxt trimming what it read
parseTxtTrimmed(txt) ==
  IF ~txt.readOk THEN Out(Failure("text-reader-failed", "TXT_PARSE_ERROR", FALSE), <<>>)
  ELSE Out(Extracted(Trim(txt.text), "text-reader"), <<>>)

\* txt: [readOk, text]
parseTxt(txt) ==
  IF ~txt.readOk THEN Out(Failure("text-reader-failed", "TXT_PARSE_ERROR", FALSE), <<>>)
  ELSE Out(Extracted(txt.text, "text-reader"), <<>>)

\* file.name.endsWith('.pdf')
EndsWithDotPdf(name) == Len(name) >= 2 /\ name[Len(name)] = "pdf"

\* runOcr without the media-type test of line 574
runOcrAnyType(file, opts, tesseractLoaded, ocr) ==
  LET importSteps == IF tesseractLoaded THEN <<>> ELSE << <<"import tesseract", 0>> >>
      recognizeSteps == importSteps \o << <<"createObjectURL", 0>>, <<"recognize", 0>> >>
  IN IF ~tesseractLoaded /\ ~ocr.importOk
     THEN [result |-> Failure("tesseract-not-installed", "MISSING_LIBRARY", FALSE),
           steps |-> importSteps, leaked |-> 0]
     ELSE IF ocr.throws
     THEN [result |-> Failure("ocr-failed", "OCR_FAILED", FALSE),
           steps |-> recognizeSteps, leaked |-> 1]
     ELSE [result |-> Extracted(ocr.text, "tesseract-ocr"),
           steps |-> Append(recognizeSteps, <<"revokeObjectURL", 0>>), leaked |-> 0]

\* ocr: [importOk, throws, text]; leaked = 1 when the object URL created at
\* line 606 is not revoked by the time runOcr returns.
runOcr(file, opts, tesseractLoaded, ocr) ==
  LET importSteps == IF tesseractLoaded THEN <<>> ELSE << <<"import tesseract", 0>> >>
      recognizeSteps == importSteps \o << <<"createObjectURL", 0>>, <<"recognize", 0>> >>
  IN IF ~tesseractLoaded /\ ~ocr.importOk
     THEN [result |-> Failure("tesseract-not-installed", "MISSING_LIBRARY", FALSE),
           steps |-> importSteps, leaked |-> 0]
     ELSE IF file.type \notin ImageTypes
     THEN IF file.type = "application/pdf" \/ EndsWithDotPdf(file.name)
          THEN [result |-> Failure("ocr-pdf-not-implemented", "OCR_PDF_NOT_IMPLEMENTED", FALSE),
                steps |-> importSteps, leaked |-> 0]
          ELSE [result |-> Failure("ocr-unsupported-type", "OCR_UNSUPPORTED_TYPE", FALSE),
                steps |-> importSteps, leaked |-> 0]
     ELSE IF ocr.throws
     THEN [result |-> Failure("ocr-failed", "OCR_FAILED", FALSE),
           steps |-> recognizeSteps, leaked |-> 1]
     ELSE [result |-> Extracted(ocr.text, "tesseract-ocr"),
           steps |-> Append(recognizeSteps, <<"revokeObjectURL", 0>>), leaked |-> 0]

\* the module-level Tesseract after runOcr (line 557)
TesseractAfterOcr(tesseractLoaded, ocr) == tesseractLoaded \/ ocr.importOk


\* ------------------------------------------------------------------------
\* ExtractionOrchestrator: the synchronous stretches of parseDocument
\* ------------------------------------------------------------------------
DEFAULT_minWordCount == 30
DEFAULT_maxPages == 50
DEFAULT_minQualityScore == Frac(35, 100)

\* Sniff with a last branch that reads every other file as text
SniffLenient(file) ==
  LET ext == Extension(file.name)
      mime == file.type
  IN IF \/ ext = "docx" \/ ext = "doc" \/ mime = MsWord \/ mime = OoxmlWord
        \/ (mime = OctetStream /\ (ext = "docx" \/ ext = "doc"))
     THEN "word"
     ELSE IF ext = "pdf" \/ mime = "application/pdf" \/ (mime = OctetStream /\ ext = "pdf")
     THEN "pdf"
     ELSE "txt"

\* Sniff with the PDF test placed before the Word test
SniffPdfFirst(file) ==
  LET ext == Extension(file.name)
      mime == file.type
  IN IF ext = "pdf" \/ mime = "application/pdf" \/ (mime = OctetStream /\ ext = "pdf")
     THEN "pdf"
     ELSE IF \/ ext = "docx" \/ ext = "doc" \/ mime = MsWord \/ mime = OoxmlWord
             \/ (mime = OctetStream /\ (ext = "docx" \/ ext = "doc"))
     THEN "word"
     ELSE IF ext = "txt" \/ mime = "text/plain" \/ (mime = OctetStream /\ ext = "txt")
     THEN "txt"
     ELSE "unsupported"

\* the if / else-if chain of lines 667, 707, 730, 749
Sniff(file) ==
  LET ext == Extension(file.name)
      mime == file.type
  IN IF \/ ext = "docx" \/ ext = "doc" \/ mime = MsWord \/ mime = OoxmlWord
        \/ (mime = OctetStream /\ (ext = "docx" \/ ext = "doc"))
     THEN "word"
     ELSE IF ext = "pdf" \/ mime = "application/pdf" \/ (mime = OctetStream /\ ext = "pdf")
     THEN "pdf"
     ELSE IF ext = "txt" \/ mime = "text/plain" \/ (mime = OctetStream /\ ext = "txt")
     THEN "txt"
     ELSE "unsupported"

UnsupportedResult == Failure("unsupported-format", "UNSUPPORTED_FORMAT", TRUE)

\* DirectCodes with the signature code left out of the list of line 687
DirectCodesShort(kind) ==
  CASE kind = "word" -> {"LEGACY_DOC_FORMAT", "DOCX_NOT_VALID_ZIP", "DOCX_PASSWORD_PROTECTED"}
    [] kind = "pdf" -> {"PDF_ENCRYPTED", "PDF_NO_TEXT_LAYER"}
    [] OTHER -> {}

\* the codes returned directly after the backend call (lines 687, 710)
DirectCodes(kind) ==
  CASE kind = "word" -> {"LEGACY_DOC_FORMAT", "DOCX_NOT_VALID_ZIP",
                         "DOCX_PASSWORD_PROTECTED", "INVALID_DOCX_SIGNATURE"}
    [] kind = "pdf" -> {"PDF_ENCRYPTED", "PDF_NO_TEXT_LAYER"}
    [] OTHER -> {}

\* Evaluate with > for >= in the word-count test
EvaluateStrict(kind, opts, best, r) ==
  IF r.error.present /\ r.error.code # "" /\ r.error.code \in DirectCodes(kind)
  THEN [ret |-> TRUE, result |-> r, best |-> best, at |-> "direct"]
  ELSE IF r.text # <<>>
  THEN IF countWords(r.text) > opts.minWordCount
       THEN [ret |-> TRUE, result |-> r, best |-> best, at |-> "word-count"]
       ELSE IF ScoreGE(r.score, opts.minQualityScore)
       THEN [ret |-> TRUE, result |-> r, best |-> best, at |-> "score"]
       ELSE [ret |-> FALSE, result |-> r, at |-> "",
             best |-> IF ScoreGT(r.score, best.score) THEN r ELSE best]
  ELSE [ret |-> FALSE, result |-> r, best |-> best, at |-> ""]

\* lines 686-706, 709-729, 732-748: [ret, result, best, at], at the return
\* statement taken when ret
Evaluate(kind, opts, best, r) ==
  IF r.error.present /\ r.error.code # "" /\ r.error.code \in DirectCodes(kind)
  THEN [ret |-> TRUE, result |-> r, best |-> best, at |-> "direct"]
  ELSE IF r.text # <<>>
  THEN IF countWords(r.text) >= opts.minWordCount
       THEN [ret |-> TRUE, result |-> r, best |-> best, at |-> "word-count"]
       ELSE IF ScoreGE(r.score, opts.minQualityScore)
       THEN [ret |-> TRUE, result |-> r, best |-> best, at |-> "score"]
       ELSE [ret |-> FALSE, result |-> r, at |-> "",
             best |-> IF ScoreGT(r.score, best.score) THEN r ELSE best]
  ELSE [ret |-> FALSE, result |-> r, best |-> best, at |-> ""]

\* LowBarAccept asking also for a score of at least 0.2
LowBarAcceptScored(best) ==
  /\ best.text # <<>>
  /\ Trim(best.text) # <<>>
  /\ countWords(best.text) >= 10
  /\ ScoreGE(best.score, Frac(2, 10))

\* lines 765-772
LowBarAccept(best) ==
  /\ best.text # <<>>
  /\ Trim(best.text) # <<>>
  /\ countWords(best.text) >= 10

\* OcrWanted looking at the option alone, not at the best-so-far result
OcrWantedWhenEnabled(opts, best) == opts.enableOcr

\* line 774
OcrWanted(opts, best) ==
  (best.text = <<>> \/ ScoreLT(best.score, Frac(2, 10))) /\ opts.enableOcr

\* EvaluateOcr with the threshold fixed at 10 words
EvaluateOcrTenWords(opts, best, o) ==
  IF o.text # <<>>
  THEN IF countWords(o.text) >= 10
       THEN [ret |-> TRUE, result |-> o, best |-> best]
       ELSE [ret |-> FALSE, result |-> o,
             best |-> IF ScoreGT(o.score, best.score) THEN o ELSE best]
  ELSE [ret |-> FALSE, result |-> o, best |-> best]

\* lines 777-788: [ret, result, best]
EvaluateOcr(opts, best, o) ==
  IF o.text # <<>>
  THEN IF countWords(o.text) >= 10 /\ 2 * countWords(o.text) >= opts.minWordCount
       THEN [ret |-> TRUE, result |-> o, best |-> best]
       ELSE [ret |-> FALSE, result |-> o,
             best |-> IF ScoreGT(o.score, best.score) THEN o ELSE best]
  ELSE [ret |-> FALSE, result |-> o, best |-> best]

\* Final returning the low-quality best-so-far text tagged with an error
FinalTagsBest(file, opts, best) ==
  IF best.text # <<>> /\ Trim(best.text) # <<>>
  THEN [best EXCEPT !.error = Err("NO_TEXT_EXTRACTED", ~opts.enableOcr)]
  ELSE IF Extension(file.name) = "docx"
  THEN Failure("docx-extraction-failed", "DOCX_NO_TEXT_EXTRACTED", TRUE)
  ELSE Failure("extraction-failed", "NO_TEXT_EXTRACTED", ~opts.enableOcr)

\* Final without the test of line 791
FinalKeepsBest(file, opts, best) == best

\* lines 790-819
Final(file, opts, best) ==
  IF best.text # <<>> /\ Trim(best.text) # <<>> THEN best
  ELSE IF Extension(file.name) = "docx"
  THEN Failure("docx-extraction-failed", "DOCX_NO_TEXT_EXTRACTED", TRUE)
  ELSE Failure("extraction-failed", "NO_TEXT_EXTRACTED", ~opts.enableOcr)

\* OnException returning a bare failure, without the best-so-far result
OnExceptionDropsBest(name, best) ==
  Failure("error", IF name = "AbortError" THEN "PARSING_TIMEOUT" ELSE "PARSING_ERROR", FALSE)

\* lines 820-844: the catch clause of parseDocument, for an exception of
\* that name caught while bestResult = best
OnException(name, best) ==
  [text |-> best.text, score |-> best.score,
   source |-> IF best.source # "" THEN best.source
              ELSE IF name = "AbortError" THEN "timeout" ELSE "error",
   error |-> Err(IF name = "AbortError" THEN "PARSING_TIMEOUT" ELSE "PARSING_ERROR", FALSE),
   fallbackMethod |-> FALSE]

\* line 655
InitialBest ==
  [text |-> EmptyText, score |-> ZeroScore, source |-> "none", error |-> NoError,
   fallbackMethod |-> FALSE]

\* AfterBackend starting runOcr without the acceptance evaluation
AfterBackendEager(kind, file, opts, best, r) ==
  IF opts.enableOcr
  THEN [pc |-> "awaitOcr", result |-> InitialBest, best |-> best, at |-> ""]
  ELSE [pc |-> "done", result |-> Final(file, opts, best), best |-> best, at |-> "final"]

\* what parseDocument does from the return of the format backend to its next
\* await or its return: [pc, result, best, at], at the return statement taken
AfterBackend(kind, file, opts, best, r) ==
  LET ev == Evaluate(kind, opts, best, r)
  IN IF ev.ret
     THEN [pc |-> "done", result |-> ev.result, best |-> ev.best, at |-> ev.at]
     ELSE IF LowBarAccept(ev.best)
     THEN [pc |-> "done", result |-> ev.best, best |-> ev.best, at |-> "low-bar"]
     ELSE IF OcrWanted(opts, ev.best)
     THEN [pc |-> "awaitOcr", result |-> InitialBest, best |-> ev.best, at |-> ""]
     ELSE [pc |-> "done", result |-> Final(file, opts, ev.best), best |-> ev.best,
           at |-> "final"]

\* from the return of runOcr to the return of parseDocument
AfterOcr(file, opts, best, o) ==
  LET ev == EvaluateOcr(opts, best, o)
  IN IF ev.ret
     THEN [pc |-> "done", result |-> ev.result, best |-> ev.best, at |-> "ocr"]
     ELSE [pc |-> "done", result |-> Final(file, opts, ev.best), best |-> ev.best,
           at |-> "final"]


\* ------------------------------------------------------------------------
\* Inputs
\* ------------------------------------------------------------------------
FewWords == 5
SomeWords == 7
LowBarWords == 10
OcrWords == 12
SmallMinWordCount == 6
SmallMaxPages == 2

GoodText(k) == Rep(<<"a", "b">>, k)

\* "/Obj" followed by k-1 words of r replacement characters each
JunkText(k, r) ==
  IF k <= 1 THEN <<"/", "O", "b", "j">>
  ELSE <<"/", "O", "b", "j", " ">> \o Rep([i \in 1..r |-> ReplacementChar], k - 1)

BlankText == <<" ", " ">>
ZeroText == <<"/", "O", "b", "j">> \o [i \in 1..60 |-> ReplacementChar]

BackendTexts ==
  { EmptyText, BlankText, ZeroText,
    GoodText(FewWords), GoodText(DEFAULT_minWordCount),
    JunkText(FewWords, 3), JunkText(SomeWords, 1), JunkText(LowBarWords, 1),
    JunkText(LowBarWords, 3), JunkText(DEFAULT_minWordCount, 1) }

OcrTexts ==
  { EmptyText, BlankText, GoodText(FewWords), GoodText(OcrWords), GoodText(OcrWords + 3),
    JunkText(FewWords, 3), JunkText(SomeWords, 1) }

Names ==
  { <<"a", "docx">>, <<"a", "DOC">>, <<"a", "pdf">>, <<"a", "txt">>, <<"a", "jpg">>,
    <<"docx">>, <<"a", "txt", "PDF">> }

Mimes == {"", MsWord, OoxmlWord, "application/pdf", "text/plain", OctetStream, "image/jpeg"}

Files == [name : Names, type : Mimes]

Options ==
  [enableOcr : BOOLEAN,
   minWordCount : {DEFAULT_minWordCount, SmallMinWordCount},
   minQualityScore : {DEFAULT_minQualityScore, Frac(1, 10)},
   maxPages : {DEFAULT_maxPages, SmallMaxPages, 0}]

ZipSignature == <<80, 75, 3, 4>>
OtherSignatures == { <<37, 80, 68, 70>>, <<80, 75>> }

MammothValue(t) == [throws |-> FALSE, kw |-> {}, text |-> t]
MammothThrow(kw) == [throws |-> TRUE, kw |-> kw, text |-> EmptyText]
NoZip == [loadOk |-> FALSE, hasDocumentXml |-> FALSE, runs |-> <<>>]
Zip(runs) == [loadOk |-> TRUE, hasDocumentXml |-> TRUE, runs |-> runs]

ZipArchives ==
  { NoZip,
    [loadOk |-> TRUE, hasDocumentXml |-> FALSE, runs |-> <<>>],
    Zip(<<>>),
    Zip(<< <<" ">>, <<"\n">> >>),
    Zip(<< <<"a", "&", "a", "m", "p", ";", "l", "t", ";">>, <<" ", "b", "\n", "\n", "c">> >>),
    Zip([i \in 1..LowBarWords |-> <<"/", "O", "b", "j", "R", "R", "R", "R", "R", "R", "R", "R">>]) }

DocxEnv(bufferOk, bytes, importOk, m, zip) ==
  [bufferOk |-> bufferOk, bytes |-> bytes, importOk |-> importOk, mammoth |-> m, zip |-> zip]

DocxEnvs ==
  { DocxEnv(FALSE, ZipSignature, TRUE, MammothValue(EmptyText), NoZip) }
  \cup { DocxEnv(TRUE, b, TRUE, MammothValue(GoodText(FewWords)), Zip(<<>>)) : b \in OtherSignatures }
  \cup { DocxEnv(TRUE, ZipSignature, i, m, Zip(<< <<"a", "b">> >>)) :
           i \in BOOLEAN,
           m \in {MammothValue(t) : t \in BackendTexts}
                 \cup {MammothThrow({k}) : k \in {"zip", "archive", "password", "protected"}} }
  \cup { DocxEnv(TRUE, ZipSignature, i, m, z) :
           i \in BOOLEAN,
           m \in {MammothValue(EmptyText), MammothValue(BlankText), MammothThrow({})},
           z \in ZipArchives }

PdfDoc(encrypted, pages) ==
  [throws |-> FALSE, kw |-> {}, encrypted |-> encrypted, pages |-> pages]
PdfThrow(kw) == [throws |-> TRUE, kw |-> kw, encrypted |-> FALSE, pages |-> <<>>]
PdfEnv(bufferOk, open, badPage) == [bufferOk |-> bufferOk, open |-> open, badPage |-> badPage]

PdfEnvs ==
  { PdfEnv(FALSE, PdfThrow({}), 0),
    PdfEnv(TRUE, PdfThrow({"password"}), 0),
    PdfEnv(TRUE, PdfThrow({"permission"}), 0),
    PdfEnv(TRUE, PdfThrow({}), 0),
    PdfEnv(TRUE, PdfDoc(TRUE, << <<GoodText(FewWords)>> >>), 0),
    PdfEnv(TRUE, PdfDoc(FALSE, << <<>>, <<>> >>), 0),
    PdfEnv(TRUE, PdfDoc(FALSE, << <<>>, <<>>, <<>>, <<GoodText(FewWords)>> >>), 0),
    PdfEnv(TRUE, PdfDoc(FALSE, << <<GoodText(1), GoodText(1)>>, <<>>, <<GoodText(FewWords)>> >>), 0),
    PdfEnv(TRUE, PdfDoc(FALSE, << <<GoodText(1)>>, <<GoodText(1)>> >>), 2),
    PdfEnv(TRUE, PdfDoc(FALSE, << <<GoodText(1)>>, <<GoodText(1)>> >>), 1),
    PdfEnv(TRUE, PdfDoc(FALSE, << [i \in 1..21 |-> GoodText(1)], <<GoodText(DEFAULT_minWordCount)>> >>), 0),
    PdfEnv(TRUE, PdfDoc(FALSE, << <<JunkText(FewWords, 3)>> >>), 0),
    PdfEnv(TRUE, PdfDoc(FALSE, << <<JunkText(SomeWords, 1)>> >>), 0),
    PdfEnv(TRUE, PdfDoc(FALSE, << <<JunkText(LowBarWords, 1)>>, <<>> >>), 0),
    PdfEnv(TRUE, PdfDoc(FALSE, << <<ZeroText>> >>), 0),
    PdfEnv(TRUE, PdfDoc(FALSE, << <<BlankText>> >>), 0) }

TxtEnvs ==
  { [readOk |-> FALSE, text |-> EmptyText] }
  \cup { [readOk |-> TRUE, text |-> t] : t \in BackendTexts }

OcrEnvs ==
  { [importOk |-> FALSE, throws |-> FALSE, text |-> EmptyText],
    [importOk |-> TRUE, throws |-> TRUE, text |-> EmptyText] }
  \cup { [importOk |-> TRUE, throws |-> FALSE, text |-> t] : t \in OcrTexts }

PdfjsStates == {"real", "mock", "none"}

\* What each backend can return over these inputs: [out, loaded], loaded the
\* module-level library reference after the call.
DocxOutcomes ==
  [f \in Files |-> [loaded \in BOOLEAN |->
     { [out |-> parseDocx(f, loaded, e), loaded |-> MammothAfterDocx(f, loaded, e)] :
         e \in DocxEnvs }]]

PdfOutcomes ==
  [f \in Files |-> [o \in Options |-> [p \in PdfjsStates |->
     { parsePdf(f, o, p, e) : e \in PdfEnvs }]]]

TxtOutcomes == { parseTxt(e) : e \in TxtEnvs }

OcrOutcomes ==
  [f \in Files |-> [o \in Options |-> [loaded \in BOOLEAN |->
     { [out |-> runOcr(f, o, loaded, e), loaded |-> TesseractAfterOcr(loaded, e)] :
         e \in OcrEnvs }]]]


\* ------------------------------------------------------------------------
\* One run of parseDocument(file, opts)
\* ------------------------------------------------------------------------
VARIABLES
  file,          \* the uploaded file: [name, type]
  opts,          \* DEFAULT_OPTIONS overridden by the caller's options
  pdfjs,         \* module-level pdfjs (lines 7-26)
  mammoth,       \* module-level mammoth is set (line 4)
  Tesseract,     \* module-level Tesseract is set (line 6)
  pc,            \* "start", "awaitDocx", "awaitPdf", "awaitTxt", "awaitOcr", "done"
  hung,          \* the awaited backend call never completes
  bestResult,    \* line 655
  result,        \* the value parseDocument returned (when pc = "done")
  returnedAt,    \* the return statement that produced it
  backendResult, \* what the format backend returned
  ocrResult,     \* what runOcr returned
  trace,         \* the backend and external calls made so far
  aborted,       \* controller.abort() has run
  timerArmed,    \* the timer of line 664 is pending
  leakedUrls,    \* object URLs created and not revoked
  runs,          \* the concurrent invocations sharing this module (ConcSpec)
  probe,         \* the texts handed to the pure functions and what they returned
  currentDocument, \* DocumentContext.tsx line 95 (NoDocument: null)
  documents,       \* line 96
  history,         \* line 100
  historyIndex,    \* line 101
  autosaveTimer,   \* the document the pending autosave callback captured (line 207)
  cloudSaves,      \* the documents the pending simulateCloudSave callbacks captured
  session          \* the operations since the last document was created, for the properties

editorVars ==
  <<currentDocument, documents, history, historyIndex, autosaveTimer, cloudSaves, session>>

vars == <<file, opts, pdfjs, mammoth, Tesseract, pc, hung, bestResult, result,
          returnedAt, backendResult, ocrResult, trace, aborted, timerArmed, leakedUrls,
          runs, probe, editorVars>>

\* currentDocument = null
NoDocument == [id |-> 0, sentences |-> <<>>, version |-> 0, versionHistory |-> <<>>]

NoSession == [ops |-> <<>>, before |-> <<>>, beforeUndo |-> <<>>, count |-> 0]

\* DocumentContext.tsx lines 95-105: the state of a freshly mounted provider
NoEditor ==
  /\ currentDocument = NoDocument
  /\ documents = <<>>
  /\ history = <<>>
  /\ historyIndex = -1
  /\ autosaveTimer = NoDocument
  /\ cloudSaves = {}
  /\ session = NoSession

NoResult ==
  [text |-> EmptyText, score |-> ZeroScore, source |-> "", error |-> NoError,
   fallbackMethod |-> FALSE]

\* The module has just been loaded: mammoth and Tesseract are null, pdfjs is
\* what lines 10-26 left.  A value no run of this file reads is held fixed.
Init ==
  /\ file \in Files
  /\ opts \in Options
  /\ Sniff(file) # "pdf" => opts.maxPages = DEFAULT_maxPages
  /\ pdfjs \in (IF Sniff(file) = "pdf" THEN PdfjsStates ELSE {"real"})
  /\ mammoth = FALSE
  /\ Tesseract = FALSE
  /\ pc = "start"
  /\ hung = FALSE
  /\ bestResult = InitialBest
  /\ result = NoResult
  /\ returnedAt = ""
  /\ backendResult = NoResult
  /\ ocrResult = NoResult
  /\ trace = <<>>
  /\ aborted = FALSE
  /\ timerArmed = FALSE
  /\ leakedUrls = 0
  /\ runs = <<>>
  /\ probe = <<>>
  /\ NoEditor

\* the effect of a synchronous stretch that ends in `next`: [pc, result, best].
\* Returning runs the finally block (clearTimeout); awaiting runOcr starts it.
Proceed(next, steps) ==
  /\ pc' = next.pc
  /\ bestResult' = next.best
  /\ result' = IF next.pc = "done" THEN next.result ELSE result
  /\ returnedAt' = next.at
  /\ timerArmed' = IF next.pc = "done" THEN FALSE ELSE timerArmed
  /\ trace' = IF next.pc = "awaitOcr" THEN trace \o steps \o << <<"runOcr", 0>> >>
              ELSE trace \o steps
  /\ \E h \in BOOLEAN : hung' = (h /\ next.pc = "awaitOcr")

\* lines 648-685, 707-708, 730-731, 749-762: up to the first await
Start ==
  /\ pc = "start"
  /\ LET kind == Sniff(file)
     IN IF kind = "word" /\ isLegacyDoc(file)
        THEN /\ pc' = "done" /\ result' = LegacyDocResult /\ returnedAt' = "legacy"
             /\ timerArmed' = FALSE /\ hung' = FALSE /\ trace' = trace
        ELSE IF kind = "unsupported"
        THEN /\ pc' = "done" /\ result' = UnsupportedResult /\ returnedAt' = "unsupported"
             /\ timerArmed' = FALSE /\ hung' = FALSE /\ trace' = trace
        ELSE /\ pc' = (CASE kind = "word" -> "awaitDocx"
                         [] kind = "pdf" -> "awaitPdf"
                         [] OTHER -> "awaitTxt")
             /\ trace' = Append(trace, <<(CASE kind = "word" -> "parseDocx"
                                            [] kind = "pdf" -> "parsePdf"
                                            [] OTHER -> "parseTxt"), 0>>)
             /\ result' = result /\ returnedAt' = returnedAt
             /\ timerArmed' = TRUE
             /\ hung' \in BOOLEAN
  /\ UNCHANGED <<file, opts, pdfjs, mammoth, Tesseract, bestResult, backendResult,
                 ocrResult, aborted, leakedUrls, runs, probe, editorVars>>

DocxReturns ==
  /\ pc = "awaitDocx" /\ ~hung
  /\ \E call \in DocxOutcomes[file][mammoth] :
       /\ backendResult' = call.out.result
       /\ mammoth' = call.loaded
       /\ Proceed(AfterBackend("word", file, opts, bestResult, call.out.result),
                  call.out.steps)
  /\ UNCHANGED <<file, opts, pdfjs, Tesseract, ocrResult, aborted, leakedUrls, runs, probe, editorVars>>

PdfReturns ==
  /\ pc = "awaitPdf" /\ ~hung
  /\ \E out \in PdfOutcomes[file][opts][pdfjs] :
       /\ backendResult' = out.result
       /\ Proceed(AfterBackend("pdf", file, opts, bestResult, out.result), out.steps)
  /\ UNCHANGED <<file, opts, pdfjs, mammoth, Tesseract, ocrResult, aborted, leakedUrls,
                 runs, probe, editorVars>>

TxtReturns ==
  /\ pc = "awaitTxt" /\ ~hung
  /\ \E out \in TxtOutcomes :
       /\ backendResult' = out.result
       /\ Proceed(AfterBackend("txt", file, opts, bestResult, out.result), out.steps)
  /\ UNCHANGED <<file, opts, pdfjs, mammoth, Tesseract, ocrResult, aborted, leakedUrls,
                 runs, probe, editorVars>>

OcrReturns ==
  /\ pc = "awaitOcr" /\ ~hung
  /\ \E call \in OcrOutcomes[file][opts][Tesseract] :
       /\ ocrResult' = call.out.result
       /\ Tesseract' = call.loaded
       /\ leakedUrls' = leakedUrls + call.out.leaked
       /\ Proceed(AfterOcr(file, opts, bestResult, call.out.result), call.out.steps)
  /\ UNCHANGED <<file, opts, pdfjs, mammoth, backendResult, aborted, runs, probe, editorVars>>

\* line 664: the timer callback runs controller.abort(); nothing in the
\* module reads controller.signal
TimeoutFires ==
  /\ timerArmed
  /\ aborted' = TRUE
  /\ timerArmed' = FALSE
  /\ UNCHANGED <<file, opts, pdfjs, mammoth, Tesseract, pc, hung, bestResult, result,
                 returnedAt, backendResult, ocrResult, trace, leakedUrls, runs, probe, editorVars>>

Next == Start \/ DocxReturns \/ PdfReturns \/ TxtReturns \/ OcrReturns \/ TimeoutFires

Spec == Init /\ [][Next]_vars

\* a backend call that completes is awaited
BackendReady == pc \in {"awaitDocx", "awaitPdf", "awaitTxt", "awaitOcr"} /\ ~hung

\* The event loop runs every callback that is ready, and a pending timer
\* fires.  A return action is enabled exactly when BackendReady holds at its
\* pc, and taking it leaves that pc, so weak fairness of the four return
\* actions is []<>~BackendReady.
FairSpec ==
  /\ Spec
  /\ WF_vars(Start)
  /\ WF_vars(TimeoutFires)
  /\ []<>~BackendReady


\* ------------------------------------------------------------------------
\* Properties
\* ------------------------------------------------------------------------
Called(op) == \E i \in DOMAIN trace : trace[i][1] = op

BackendCalls ==
  Cardinality({i \in DOMAIN trace : trace[i][1] \in {"parseDocx", "parsePdf", "parseTxt", "runOcr"}})

\* the format backend has been called and has returned
BackendReturned ==
  /\ Called("parseDocx") \/ Called("parsePdf") \/ Called("parseTxt")
  /\ pc \in {"awaitOcr", "done"}

HardBackendError ==
  /\ BackendReturned
  /\ backendResult.error.present
  /\ \/ backendResult.error.code \in {"PDF_ENCRYPTED", "INVALID_DOCX_SIGNATURE",
                                      "DOCX_NOT_VALID_ZIP", "DOCX_PASSWORD_PROTECTED"}
     \/ (backendResult.error.code = "PDF_NO_TEXT_LAYER" /\ ~opts.enableOcr)

\* C1: when the format backend returns PDF_ENCRYPTED, INVALID_DOCX_SIGNATURE,
\* DOCX_NOT_VALID_ZIP or DOCX_PASSWORD_PROTECTED, or PDF_NO_TEXT_LAYER with
\* enableOcr false, parseDocument returns exactly that result and calls
\* neither runOcr nor any other backend.
C1_HardErrorPropagates ==
  HardBackendError =>
    /\ pc = "done"
    /\ result = backendResult
    /\ ~Called("runOcr")
    /\ BackendCalls = 1

C1_Witness ==
  /\ HardBackendError
  /\ pc = "done"
  /\ opts.enableOcr
  /\ backendResult.error.code = "INVALID_DOCX_SIGNATURE"

\* C2: when parsePdf reports PDF_NO_TEXT_LAYER and enableOcr is true, the
\* orchestrator goes on to runOcr instead of returning that result.
C2_NoTextLayerHandsOffToOcr ==
  (/\ BackendReturned
   /\ backendResult.error.present
   /\ backendResult.error.code = "PDF_NO_TEXT_LAYER"
   /\ opts.enableOcr)
  => /\ Called("runOcr")
     /\ ~(pc = "done" /\ result = backendResult)

\* the library a backend needs could not be had: the import of mammoth
\* failed, or pdfjs is not the real engine
CapabilityMissing ==
  \/ Called("mammoth unavailable")
  \/ (Called("parsePdf") /\ BackendReturned /\ pdfjs # "real")

\* C3: when the rich-document library or the PDF engine is unavailable, the
\* failure is reported as MISSING_LIBRARY and returned at once, with no ZIP
\* fallback, no OCR and no other code in its place.
C3_MissingCapabilityPropagates ==
  CapabilityMissing =>
    /\ pc = "done"
    /\ result.error.present
    /\ result.error.code = "MISSING_LIBRARY"
    /\ ~Called("extractDocxWithoutMammoth")
    /\ ~Called("runOcr")

\* C4: a backend result with non-empty text and no error is returned at
\* once and unchanged, with no OCR call, if countWords(text) >= minWordCount
\* or score >= minQualityScore; it is not accepted at that step when both are
\* below; and a result of fewer than 10 words with a score below 0.2 (5 words
\* at 0.1) leads to runOcr when OCR is enabled.
C4_AcceptancePolicy ==
  (BackendReturned /\ backendResult.text # <<>> /\ ~backendResult.error.present) =>
    LET r == backendResult
        enough == \/ countWords(r.text) >= opts.minWordCount
                  \/ ScoreGE(r.score, opts.minQualityScore)
    IN /\ enough => /\ pc = "done"
                    /\ returnedAt \in {"word-count", "score"}
                    /\ result = r
                    /\ ~Called("runOcr")
       /\ ~enough => returnedAt \notin {"direct", "word-count", "score"}
       /\ (/\ ~enough
           /\ opts.enableOcr
           /\ countWords(r.text) < 10
           /\ ScoreLT(r.score, Frac(2, 10))) => Called("runOcr")

C4_Witness ==
  /\ pc = "done"
  /\ returnedAt = "word-count"
  /\ opts.minWordCount = DEFAULT_minWordCount
  /\ opts.minQualityScore = DEFAULT_minQualityScore
  /\ countWords(backendResult.text) = DEFAULT_minWordCount
  /\ ScoreLT(backendResult.score, DEFAULT_minQualityScore)
  /\ result = backendResult

\* C5: the result parseDocument returns never has the empty text together
\* with no error.
C5_NeverEmptyWithoutError ==
  pc = "done" => ~(result.text = <<>> /\ ~result.error.present)

C5_Witness ==
  /\ pc = "done"
  /\ backendResult.source = "text-reader"
  /\ backendResult.text = <<>>
  /\ ~backendResult.error.present
  /\ result.text = <<>>
  /\ result.error.present

\* C6: once the timeout has expired parseDocument returns, even when the
\* backend call in flight never completes.
C6_ReturnsAfterTimeout == aborted ~> (pc = "done")

\* C7: from any state the expiry of the timeout leads directly to a result
\* with error PARSING_TIMEOUT, actionable false, whose text, score and source
\* are those of the best-so-far result.
C7_TimeoutYieldsTimeoutResult ==
  aborted =>
    /\ pc = "done"
    /\ result.error = Err("PARSING_TIMEOUT", FALSE)
    /\ result.text = bestResult.text
    /\ result.score = bestResult.score
    /\ result.source = bestResult.source

\* C8: for a file whose extension is doc or whose media type is
\* application/msword, parseDocument returns text "", score 0 and error
\* LEGACY_DOC_FORMAT, actionable, and calls no backend.
C8_LegacyDocFailsFast ==
  (pc # "start" /\ (Extension(file.name) = "doc" \/ file.type = MsWord)) =>
    /\ pc = "done"
    /\ result.text = <<>>
    /\ result.score = ZeroScore
    /\ result.error = Err("LEGACY_DOC_FORMAT", TRUE)
    /\ trace = <<>>

C8_Witness ==
  /\ pc = "done"
  /\ file.type = MsWord
  /\ Extension(file.name) = "pdf"
  /\ result.error.code = "LEGACY_DOC_FORMAT"

\* the file matches none of the Word, PDF or text family rules
NoFamily ==
  /\ Extension(file.name) \notin {"docx", "doc", "pdf", "txt"}
  /\ file.type \notin {MsWord, OoxmlWord, "application/pdf", "text/plain"}

\* C9: a file of no family fails at once with UNSUPPORTED_FORMAT, actionable,
\* text "" and score 0, and no backend and no OCR is called, whatever
\* enableOcr is.
C9_UnsupportedFailsFast ==
  (pc # "start" /\ NoFamily) =>
    /\ pc = "done"
    /\ result.text = <<>>
    /\ result.score = ZeroScore
    /\ result.error = Err("UNSUPPORTED_FORMAT", TRUE)
    /\ trace = <<>>

C9_Witness ==
  /\ pc = "done"
  /\ NoFamily
  /\ file.type \in ImageTypes
  /\ opts.enableOcr
  /\ result.error.code = "UNSUPPORTED_FORMAT"

\* C10: for an image file (extension jpg, image media type) with enableOcr
\* true, the OCR engine is run, and when it returns at least 15 words the
\* result of parseDocument is the OCR result, without an error.
C10_ImageGoesToOcr ==
  (/\ pc = "done"
   /\ Extension(file.name) = "jpg"
   /\ file.type \in ImageTypes
   /\ opts.enableOcr)
  => /\ Called("recognize")
     /\ countWords(ocrResult.text) >= 15 =>
          /\ result = ocrResult
          /\ result.source = "tesseract-ocr"
          /\ ~result.error.present

\* the engine reports the encrypted flag, or raises a password exception on open
EncryptedPdf(e) ==
  /\ e.bufferOk
  /\ IF e.open.throws THEN "password" \in e.open.kw ELSE e.open.encrypted

\* C11: for an encrypted PDF parsePdf returns text "", score 0 and
\* PDF_ENCRYPTED, actionable, having made no getPage call; and a run whose
\* PDF backend returned PDF_ENCRYPTED holds no getPage call.
C11_EncryptedPdfNeverWalksPages ==
  (Called("parsePdf") /\ pdfjs = "real") =>
    /\ \A e \in PdfEnvs :
         EncryptedPdf(e) =>
           parsePdf(file, opts, pdfjs, e)
             = Out(Failure("pdf-encrypted", "PDF_ENCRYPTED", TRUE), << <<"getDocument", 0>> >>)
    /\ (BackendReturned /\ backendResult.error.code = "PDF_ENCRYPTED") =>
         /\ ~Called("getPage")
         /\ backendResult.text = <<>>
         /\ backendResult.score = ZeroScore
         /\ backendResult.error = Err("PDF_ENCRYPTED", TRUE)

C11_Witness ==
  /\ pc = "done"
  /\ pdfjs = "real"
  /\ Called("parsePdf")
  /\ Called("getDocument")
  /\ backendResult.error.code = "PDF_ENCRYPTED"
  /\ result = backendResult

\* a readable file with the ZIP signature whose archive holds no
\* word/document.xml and from which mammoth gets no text
NoDocumentXml(e) ==
  /\ e.bufferOk
  /\ hasValidDocxSignature(e.bytes)
  /\ e.zip.loadOk /\ ~e.zip.hasDocumentXml
  /\ ~e.mammoth.throws
  /\ (e.mammoth.text = <<>> \/ Trim(e.mammoth.text) = <<>>)

NoDocumentXmlEnvs == {e \in DocxEnvs : NoDocumentXml(e)}

\* C12: parseDocx never returns text "" without an error; when the archive
\* has no word/document.xml and mammoth finds no text, it returns
\* DOCX_NO_TEXT_EXTRACTED, actionable, with score 0.
C12_DocxNeverEmptyWithoutError ==
  Called("parseDocx") =>
    /\ \A loaded \in BOOLEAN : \A e \in NoDocumentXmlEnvs :
         parseDocx(file, loaded, e).result
           = Failure("docx-extraction-failed", "DOCX_NO_TEXT_EXTRACTED", TRUE)
    /\ (BackendReturned /\ backendResult.text = <<>>) =>
         /\ backendResult.error.present
         /\ backendResult.score = ZeroScore

C12_Witness ==
  /\ pc = "done"
  /\ Called("parseDocx")
  /\ Called("extractDocxWithoutMammoth")
  /\ backendResult.text = <<>>
  /\ backendResult.error = Err("DOCX_NO_TEXT_EXTRACTED", TRUE)
  /\ NoDocumentXmlEnvs # {}

\* an external call made by a backend threw in this run
ExternalCallThrew ==
  \/ Called("mammoth unavailable")
  \/ backendResult.error.code \in {"DOCX_GENERAL_ERROR", "PDF_PARSE_ERROR", "TXT_PARSE_ERROR"}
  \/ ocrResult.error.code \in {"OCR_FAILED", "MISSING_LIBRARY"}

\* a ParseResult as parseDocument builds them
WellFormed(r) ==
  /\ r.source # ""
  /\ r.error.present => r.error.code # ""
  /\ ~r.error.present => r.error = NoError

FormatBackends == {"parseDocx", "parsePdf", "parseTxt"}
OcrSteps == {"import tesseract", "createObjectURL", "recognize", "revokeObjectURL"}

\* C14: in one run the format backend is called at most once and runOcr at
\* most once; runOcr is not in flight while the format backend is; and
\* runOcr is called only after the format backend has returned a result
\* that the acceptance policy did not accept, every call of the format
\* backend coming before it in the run and every OCR call after it.
C14_BackendsSequential ==
  LET fmt == {i \in DOMAIN trace : trace[i][1] \in FormatBackends}
      ocr == {i \in DOMAIN trace : trace[i][1] = "runOcr"}
      r == backendResult
  IN /\ Cardinality(fmt) <= 1
     /\ Cardinality(ocr) <= 1
     /\ pc \in {"awaitDocx", "awaitPdf", "awaitTxt"} => (fmt # {} /\ ocr = {})
     /\ ocr # {} =>
          /\ pc \in {"awaitOcr", "done"}
          /\ fmt # {}
          /\ \A j \in ocr : \A i \in DOMAIN trace :
               IF trace[i][1] \in OcrSteps THEN j < i ELSE i <= j
          /\ WellFormed(r)
          /\ r.text # <<>> =>
               /\ countWords(r.text) < opts.minWordCount
               /\ ScoreLT(r.score, opts.minQualityScore)

C14_Witness ==
  /\ pc = "done"
  /\ Called("parsePdf")
  /\ Called("getPage")
  /\ Called("runOcr")
  /\ ocrResult.error.code = "OCR_PDF_NOT_IMPLEMENTED"
  /\ backendResult.text # <<>>

Count(op) == Cardinality({i \in DOMAIN trace : trace[i][1] = op})

\* C15: once runOcr has returned, whether recognize succeeded or threw,
\* every object URL it created has been revoked.
C15_ObjectUrlReleased ==
  (Called("runOcr") /\ pc = "done") =>
    /\ leakedUrls = 0
    /\ Count("createObjectURL") = Count("revokeObjectURL")
\* ------------------------------------------------------------------------
\* Two invocations of parseDocument sharing the module-level mammoth and
\* Tesseract.  Each invocation has its own file and its own outcomes of the
\* external calls (docx, ocr); a step runs from one await to the next one
\* that comes before a read or a write of the shared references.
\* ------------------------------------------------------------------------
RunIds == {1, 2}

ConcOptions ==
  [enableOcr |-> TRUE, minWordCount |-> DEFAULT_minWordCount,
   minQualityScore |-> DEFAULT_minQualityScore, maxPages |-> DEFAULT_maxPages]

ConcFiles == {[name |-> <<"a", "docx">>, type |-> t] : t \in {"", "image/jpeg"}}

ConcDocxEnvs ==
  { DocxEnv(TRUE, ZipSignature, i, MammothValue(t), Zip(<<>>)) :
      i \in BOOLEAN, t \in {GoodText(DEFAULT_minWordCount), JunkText(FewWords, 3)} }

ConcOcrEnvs ==
  { [importOk |-> FALSE, throws |-> FALSE, text |-> EmptyText],
    [importOk |-> TRUE, throws |-> FALSE, text |-> GoodText(OcrWords + 3)] }

singleRunVars ==
  <<file, opts, pdfjs, pc, hung, bestResult, result, returnedAt, backendResult,
    ocrResult, trace, aborted, timerArmed, leakedUrls, probe, editorVars>>

ConcInit ==
  /\ runs \in [RunIds -> [file : ConcFiles, docx : ConcDocxEnvs, ocr : ConcOcrEnvs,
                          pc : {"start"}, best : {InitialBest}, result : {NoResult}]]
  /\ mammoth = FALSE
  /\ Tesseract = FALSE
  /\ file = [name |-> <<"a", "docx">>, type |-> ""]
  /\ opts = ConcOptions
  /\ pdfjs = "real"
  /\ pc = "done"
  /\ hung = FALSE
  /\ bestResult = InitialBest
  /\ result = NoResult
  /\ returnedAt = ""
  /\ backendResult = NoResult
  /\ ocrResult = NoResult
  /\ trace = <<>>
  /\ aborted = FALSE
  /\ timerArmed = FALSE
  /\ leakedUrls = 0
  /\ probe = <<>>
  /\ NoEditor

\* lines 686-776 for invocation i, parseDocx having returned r: the
\* acceptance policy, and the start of runOcr up to its read of Tesseract
\* (line 555)
ConcAfterDocx(i, r) ==
  LET run == runs[i]
      next == AfterBackend("word", run.file, ConcOptions, run.best, r)
  IN runs' = [runs EXCEPT ![i] =
       [run EXCEPT !.best = next.best,
                   !.result = IF next.pc = "done" THEN next.result ELSE run.result,
                   !.pc = IF next.pc = "done" THEN "done"
                          ELSE IF Tesseract THEN "ocrBody" ELSE "importTesseract"]]

\* lines 776-819 for invocation i, runOcr having returned o
ConcAfterOcr(i, o) ==
  LET run == runs[i]
      next == AfterOcr(run.file, ConcOptions, run.best, o)
  IN runs' = [runs EXCEPT ![i] =
       [run EXCEPT !.best = next.best, !.result = next.result, !.pc = "done"]]

\* lines 648-685 and 224-241: up to `await file.arrayBuffer()`
ConcStart(i) ==
  /\ runs[i].pc = "start"
  /\ Sniff(runs[i].file) = "word" /\ ~isLegacyDoc(runs[i].file)
  /\ runs' = [runs EXCEPT ![i].pc = "arrayBuffer"]
  /\ UNCHANGED <<mammoth, Tesseract, singleRunVars>>

\* lines 241-265: the signature check and the read of mammoth (line 263)
ConcBufferRead(i) ==
  /\ runs[i].pc = "arrayBuffer"
  /\ IF ~runs[i].docx.bufferOk \/ ~hasValidDocxSignature(runs[i].docx.bytes)
     THEN ConcAfterDocx(i, parseDocx(runs[i].file, mammoth, runs[i].docx).result)
     ELSE runs' = [runs EXCEPT ![i].pc = IF mammoth THEN "extract" ELSE "import"]
  /\ UNCHANGED <<mammoth, Tesseract, singleRunVars>>

\* lines 265-272: the import settles, mammoth is assigned when it succeeded
\* and read again (line 272); without it, lines 331-363 and the orchestrator
ConcImportSettles(i) ==
  /\ runs[i].pc = "import"
  /\ mammoth' = (mammoth \/ runs[i].docx.importOk)
  /\ IF mammoth'
     THEN runs' = [runs EXCEPT ![i].pc = "extract"]
     ELSE ConcAfterDocx(i, parseDocx(runs[i].file, FALSE, runs[i].docx).result)
  /\ UNCHANGED <<Tesseract, singleRunVars>>

\* lines 274-363: mammoth.extractRawText settles; then the orchestrator
ConcExtractReturns(i) ==
  /\ runs[i].pc = "extract"
  /\ ConcAfterDocx(i, parseDocx(runs[i].file, TRUE, runs[i].docx).result)
  /\ UNCHANGED <<mammoth, Tesseract, singleRunVars>>

\* lines 557-570: the import of tesseract.js settles
ConcTesseractImportSettles(i) ==
  /\ runs[i].pc = "importTesseract"
  /\ IF runs[i].ocr.importOk
     THEN /\ Tesseract' = TRUE
          /\ runs' = [runs EXCEPT ![i].pc = "ocrBody"]
     ELSE /\ Tesseract' = Tesseract
          /\ ConcAfterOcr(i, runOcr(runs[i].file, ConcOptions, FALSE, runs[i].ocr).result)
  /\ UNCHANGED <<mammoth, singleRunVars>>

\* lines 574-641: the rest of runOcr; then the orchestrator
ConcOcrReturns(i) ==
  /\ runs[i].pc = "ocrBody"
  /\ ConcAfterOcr(i, runOcr(runs[i].file, ConcOptions, TRUE, runs[i].ocr).result)
  /\ UNCHANGED <<mammoth, Tesseract, singleRunVars>>

ConcNext ==
  \E i \in RunIds :
    \/ ConcStart(i) \/ ConcBufferRead(i) \/ ConcImportSettles(i)
    \/ ConcExtractReturns(i) \/ ConcTesseractImportSettles(i) \/ ConcOcrReturns(i)

ConcSpec == ConcInit /\ [][ConcNext]_vars

\* what an invocation returns when it is the only one the module ever ran
RunAlone(run) ==
  LET d == parseDocx(run.file, FALSE, run.docx).result
      next == AfterBackend("word", run.file, ConcOptions, InitialBest, d)
  IN IF next.pc = "done" THEN next.result
     ELSE AfterOcr(run.file, ConcOptions, next.best,
                   runOcr(run.file, ConcOptions, FALSE, run.ocr).result).result

\* C16: under every interleaving of two invocations, each one returns the
\* result it returns when run alone.
C16_ConcurrentRunsIndependent ==
  \A i \in DOMAIN runs : runs[i].pc = "done" => runs[i].result = RunAlone(runs[i])

\* C17: for a file classified as plain text whose content has at least
\* minWordCount words, parseDocument returns the result of parseTxt: source
\* "text-reader", the content verbatim, score scoreQuality(text), no error,
\* and runOcr is not called.
C17_PlainTextAccepted ==
  /\ pc = "awaitTxt" =>
       \A e \in TxtEnvs : e.readOk => parseTxt(e).result = Extracted(e.text, "text-reader")
  /\ (/\ Called("parseTxt") /\ BackendReturned
      /\ ~backendResult.error.present
      /\ countWords(backendResult.text) >= opts.minWordCount) =>
       /\ pc = "done"
       /\ result = backendResult
       /\ result.source = "text-reader"
       /\ result.score = scoreQuality(result.text)
       /\ ~result.error.present
       /\ ~Called("runOcr")

C17_Witness ==
  /\ pc = "done"
  /\ Sniff(file) = "txt"
  /\ Called("parseTxt")
  /\ opts.enableOcr
  /\ opts.minWordCount = DEFAULT_minWordCount
  /\ countWords(result.text) >= DEFAULT_minWordCount
  /\ result.source = "text-reader"
  /\ ScoreGT(result.score, ZeroScore)

\* error and score of a result agree: an error comes with score 0 and text
\* "", a positive score with no error
ErrorMeansZero(r) ==
  /\ r.error.present => (r.score = ZeroScore /\ r.text = <<>>)
  /\ ScoreGT(r.score, ZeroScore) => ~r.error.present

\* C18: in every result parseDocument returns, an error implies score 0
\* (and text ""), and a score above 0 implies no error; the same holds of
\* the results the backends hand to it.
C18_ErrorImpliesZeroScore ==
  /\ pc = "done" => ErrorMeansZero(result)
  /\ BackendReturned => ErrorMeansZero(backendResult)
  /\ ErrorMeansZero(ocrResult)

C18_Witness ==
  /\ pc = "done"
  /\ returnedAt = "final"
  /\ backendResult.text # <<>>
  /\ result.error.present
  /\ result.score = ZeroScore
  /\ result.text = <<>>
\* ------------------------------------------------------------------------
\* scoreQuality applied to pairs of texts of equal length, built from chunks
\* ------------------------------------------------------------------------
MaxChunks == 3

ObjToken == <<"/", "O", "b", "j">>
LongToken == [i \in 1..41 |-> "a"]

ChunkPairs ==
  { << <<"a">>, <<"a">> >>, << <<"a">>, <<ReplacementChar>> >>,
    << <<ReplacementChar>>, <<ReplacementChar>> >>, << <<" ">>, <<" ">> >>,
    << <<ControlChar>>, <<ControlChar>> >>, << <<ControlChar>>, <<"a">> >>,
    << ObjToken, ObjToken >>, << ObjToken, [i \in 1..4 |-> ReplacementChar] >>,
    << LongToken, LongToken >>, << LongToken, [i \in 1..41 |-> ReplacementChar] >> }

Scored(n, text, other) ==
  [n |-> n, text |-> text, other |-> other,
   score |-> scoreQuality(text), otherScore |-> scoreQuality(other)]

ScoreInit ==
  /\ probe = Scored(0, <<>>, <<>>)
  /\ NoEditor
  /\ runs = <<>>
  /\ mammoth = FALSE
  /\ Tesseract = FALSE
  /\ file = [name |-> <<"a", "txt">>, type |-> "text/plain"]
  /\ opts = ConcOptions
  /\ pdfjs = "real"
  /\ pc = "done"
  /\ hung = FALSE
  /\ bestResult = InitialBest
  /\ result = NoResult
  /\ returnedAt = ""
  /\ backendResult = NoResult
  /\ ocrResult = NoResult
  /\ trace = <<>>
  /\ aborted = FALSE
  /\ timerArmed = FALSE
  /\ leakedUrls = 0

\* both texts grow by a chunk and are scored
ScoreTexts ==
  /\ probe.n < MaxChunks
  /\ \E p \in ChunkPairs :
       probe' = Scored(probe.n + 1, probe.text \o p[1], probe.other \o p[2])
  /\ UNCHANGED <<file, opts, pdfjs, mammoth, Tesseract, pc, hung, bestResult, result,
                 returnedAt, backendResult, ocrResult, trace, aborted, timerArmed,
                 leakedUrls, runs, editorVars>>

ScoreNext == ScoreTexts

ScoreSpec == ScoreInit /\ [][ScoreNext]_vars

\* the fixed penalties a text triggers: PDF-internal token, mean token
\* length above 40, letter fraction below 0.2, whitespace fraction below 0.05
Triggered(t) ==
  << \E p \in PdfInternalTokens : Includes(t, p),
     SplitChars(t) > 40 * SplitCount(t),
     5 * CountIn(t, LetterChars) < Len(t),
     20 * CountIn(t, Whitespace) < Len(t) >>

\* 100 * Len(t) times the score claimed for a non-empty text t
ClaimedScoreNum(t) ==
  LET g == Triggered(t)
      raw == 100 * Len(t) - 60 * CountIn(t, {ReplacementChar})
               - 20 * CountIn(t, {ControlChar})
               - ((IF g[1] THEN 25 ELSE 0) + (IF g[2] THEN 20 ELSE 0)
                  + (IF g[3] THEN 20 ELSE 0) + (IF g[4] THEN 10 ELSE 0)) * Len(t)
  IN IF raw < 0 THEN 0 ELSE IF raw > 100 * Len(t) THEN 100 * Len(t) ELSE raw

ScoreAsClaimed(t, v) ==
  /\ v.den > 0 /\ 0 <= v.num /\ v.num <= v.den
  /\ t = <<>> => v = ZeroScore
  /\ t # <<>> => v.num * 100 * Len(t) = ClaimedScoreNum(t) * v.den

\* C19: scoreQuality returns 0 for the empty text and, for every text, a
\* value in [0,1] equal to 1 minus the sum of the penalties (0.6 x the
\* replacement-character fraction, 0.2 x the control-character fraction, 0.25
\* for a PDF-internal token, 0.2 for mean token length > 40, 0.2 for letter
\* fraction < 0.2, 0.1 for whitespace fraction < 0.05), clamped to [0,1].
C19_ScoreIsOneMinusPenalties ==
  /\ ScoreAsClaimed(probe.text, probe.score)
  /\ ScoreAsClaimed(probe.other, probe.otherScore)

C19_Witness ==
  /\ Includes(probe.text, ObjToken)
  /\ CountIn(probe.text, {ReplacementChar}) > 0
  /\ ScoreGT(probe.score, ZeroScore)
  /\ ScoreLT(probe.score, Frac(1, 1))
  /\ probe.other # <<>>
  /\ probe.otherScore = ZeroScore

\* t has at least as many replacement characters as u, all else equal
DenserThan(t, u) ==
  /\ Len(t) = Len(u)
  /\ Triggered(t) = Triggered(u)
  /\ CountIn(t, {ControlChar}) = CountIn(u, {ControlChar})
  /\ CountIn(t, {ReplacementChar}) >= CountIn(u, {ReplacementChar})

\* C20: of two texts of the same length that trigger the same fixed
\* penalties and hold the same number of control characters, the one with
\* more U+FFFD characters never scores higher.
C20_ScoreMonotoneInReplacement ==
  /\ DenserThan(probe.text, probe.other) => ~ScoreGT(probe.score, probe.otherScore)
  /\ DenserThan(probe.other, probe.text) => ~ScoreGT(probe.otherScore, probe.score)

C20_Witness ==
  /\ DenserThan(probe.other, probe.text)
  /\ CountIn(probe.other, {ReplacementChar}) > CountIn(probe.text, {ReplacementChar})
  /\ ScoreLT(probe.otherScore, probe.score)
  /\ ScoreGT(probe.otherScore, ZeroScore)
\* ------------------------------------------------------------------------
\* countWords applied to texts built character by character
\* ------------------------------------------------------------------------
MaxWordsLen == 6

WordsChars == {"a", " ", "\t"}

\* no invocation of parseDocument is under way
NoInvocation ==
  /\ NoEditor
  /\ runs = <<>>
  /\ mammoth = FALSE
  /\ Tesseract = FALSE
  /\ file = [name |-> <<"a", "txt">>, type |-> "text/plain"]
  /\ opts = ConcOptions
  /\ pdfjs = "real"
  /\ pc = "done"
  /\ hung = FALSE
  /\ bestResult = InitialBest
  /\ result = NoResult
  /\ returnedAt = ""
  /\ backendResult = NoResult
  /\ ocrResult = NoResult
  /\ trace = <<>>
  /\ aborted = FALSE
  /\ timerArmed = FALSE
  /\ leakedUrls = 0

Counted(text) == [text |-> text, words |-> countWords(text)]

WordsInit ==
  /\ probe = Counted(<<>>)
  /\ NoInvocation

\* the text grows by a character and its words are counted
CountText ==
  /\ Len(probe.text) < MaxWordsLen
  /\ \E c \in WordsChars : probe' = Counted(Append(probe.text, c))
  /\ UNCHANGED <<file, opts, pdfjs, mammoth, Tesseract, pc, hung, bestResult, result,
                 returnedAt, backendResult, ocrResult, trace, aborted, timerArmed,
                 leakedUrls, runs, editorVars>>

WordsNext == CountText

WordsSpec == WordsInit /\ [][WordsNext]_vars

\* the number of maximal runs of characters that are not whitespace
NonWhitespaceRuns(t) ==
  Cardinality({i \in 1..Len(t) :
                 t[i] \notin Whitespace /\ (i = 1 \/ t[i - 1] \in Whitespace)})

\* C21: countWords(text) is the number of maximal runs of non-whitespace
\* characters of the text: 0 for the empty text, 3 for "a b  c", and the
\* same for a text made only of whitespace.
C21_CountWordsCountsRuns ==
  probe.words = NonWhitespaceRuns(probe.text)

\* the families the extension or the media type of a file points to
PointsTo(f) ==
  LET ext == Extension(f.name)
      mime == f.type
  IN {fam \in {"word", "pdf", "txt"} :
        \/ /\ fam = "word"
           /\ \/ ext \in {"docx", "doc"}
              \/ mime \in {MsWord, OoxmlWord}
              \/ (mime = OctetStream /\ ext \in {"docx", "doc"})
        \/ /\ fam = "pdf"
           /\ (ext = "pdf" \/ mime = "application/pdf" \/ (mime = OctetStream /\ ext = "pdf"))
        \/ /\ fam = "txt"
           /\ (ext = "txt" \/ mime = "text/plain" \/ (mime = OctetStream /\ ext = "txt"))}

\* the branch parseDocument took, read off what it did
BranchTaken ==
  CASE returnedAt = "unsupported" -> "unsupported"
    [] returnedAt = "legacy" -> "word"
    [] trace # <<>> /\ trace[1][1] = "parseDocx" -> "word"
    [] trace # <<>> /\ trace[1][1] = "parsePdf" -> "pdf"
    [] trace # <<>> /\ trace[1][1] = "parseTxt" -> "txt"
    [] OTHER -> "none"

\* C22: parseDocument treats a file as Word family when its extension or
\* media type points to Word; otherwise as PDF when they point to PDF;
\* otherwise as text when they point to text; otherwise as unsupported.
C22_SniffingOrder ==
  pc # "start" =>
    BranchTaken = (IF "word" \in PointsTo(file) THEN "word"
                   ELSE IF "pdf" \in PointsTo(file) THEN "pdf"
                   ELSE IF "txt" \in PointsTo(file) THEN "txt"
                   ELSE "unsupported")

C22_Witness ==
  /\ pc # "start"
  /\ Extension(file.name) = "pdf"
  /\ file.type = OoxmlWord
  /\ PointsTo(file) = {"word", "pdf"}
  /\ BranchTaken = "word"

\* the extraction strategies of parseDocx, as events of the trace
DocxStrategySteps ==
  {"import mammoth", "mammoth unavailable", "mammoth.extractRawText",
   "extractDocxWithoutMammoth"}

\* the readable files whose first four bytes are not 50 4B 03 04
BadSignatureEnvs ==
  {e \in DocxEnvs :
     e.bufferOk /\ SubSeq(e.bytes, 1, Min(Len(e.bytes), 4)) # ZipSignature}

InvalidSignatureResult ==
  [text |-> EmptyText, score |-> ZeroScore, source |-> "invalid-docx-signature",
   error |-> [present |-> TRUE, code |-> "INVALID_DOCX_SIGNATURE", actionable |-> TRUE],
   fallbackMethod |-> FALSE]

\* C23: parseDocx checks the ZIP signature before any extraction strategy:
\* a file whose first four bytes are not the ZIP signature is rejected
\* with INVALID_DOCX_SIGNATURE (actionable, empty text, score 0) and
\* neither mammoth nor the ZIP fallback is invoked.
C23_SignatureCheckedFirst ==
  /\ pc = "awaitDocx" =>
       \A e \in BadSignatureEnvs :
         parseDocx(file, mammoth, e) = Out(InvalidSignatureResult, <<>>)
  /\ backendResult.error.code = "INVALID_DOCX_SIGNATURE" =>
       /\ backendResult = InvalidSignatureResult
       /\ \A i \in DOMAIN trace : trace[i][1] \notin DocxStrategySteps

C23_Witness ==
  /\ pc = "done"
  /\ Called("parseDocx")
  /\ backendResult = InvalidSignatureResult
  /\ result = InvalidSignatureResult
  /\ BadSignatureEnvs # {}

\* the readable, well-signed files on which mammoth.extractRawText throws
MammothThrowEnvs ==
  {e \in DocxEnvs :
     e.bufferOk /\ e.bytes = ZipSignature /\ e.importOk /\ e.mammoth.throws}

\* the code the classification of a primary-strategy error is said to give
ClassifiedCodes(kw) ==
  IF kw \cap {"zip", "archive"} # {} THEN {"DOCX_NOT_VALID_ZIP"}
  ELSE IF kw \cap {"password", "protected"} # {} THEN {"DOCX_PASSWORD_PROTECTED"}
  ELSE {"DOCX_PARSE_ERROR", "DOCX_GENERAL_ERROR"}

\* C24: when mammoth is unavailable or throws, parseDocx fails hard without
\* running the direct ZIP fallback: "zip"/"archive" gives DOCX_NOT_VALID_ZIP,
\* "password"/"protected" gives DOCX_PASSWORD_PROTECTED, any other error a
\* generic DOCX_PARSE_ERROR / DOCX_GENERAL_ERROR.
C24_PrimaryFailureIsHard ==
  /\ pc = "awaitDocx" =>
       \A e \in MammothThrowEnvs :
         LET out == parseDocx(file, mammoth, e)
         IN /\ out.result.error.code \in ClassifiedCodes(e.mammoth.kw)
            /\ \A i \in DOMAIN out.steps : out.steps[i][1] # "extractDocxWithoutMammoth"
  /\ Called("mammoth unavailable") /\ BackendReturned =>
       /\ backendResult.error.code \in
            {"DOCX_NOT_VALID_ZIP", "DOCX_PASSWORD_PROTECTED",
             "DOCX_PARSE_ERROR", "DOCX_GENERAL_ERROR"}
       /\ ~Called("extractDocxWithoutMammoth")

\* text && text.trim() !== '' fails
IsBlank(t) == t = <<>> \/ Trim(t) = <<>>

\* the readable, well-signed files
SignedEnvs == {e \in DocxEnvs : e.bufferOk /\ e.bytes = ZipSignature}

\* on e, with mammoth loaded or not, the primary strategy yields text
PrimaryYieldsText(loaded, e) ==
  (loaded \/ e.importOk) /\ ~e.mammoth.throws /\ ~IsBlank(e.mammoth.text)

\* C25: in parseDocx the primary strategy has priority: its non-blank text
\* is returned with source "mammoth" and the ZIP fallback is not run; the
\* ZIP fallback runs only when the primary strategy produced no text, and
\* its non-blank text is returned with source "direct-zip-extraction" and
\* meta.fallbackMethod = true.
C25_PrimaryHasPriority ==
  /\ pc = "awaitDocx" =>
       \A e \in SignedEnvs :
         LET out == parseDocx(file, mammoth, e)
             fellBack == \E i \in DOMAIN out.steps :
                           out.steps[i][1] = "extractDocxWithoutMammoth"
         IN /\ PrimaryYieldsText(mammoth, e) =>
                 /\ out.result.text = e.mammoth.text
                 /\ out.result.source = "mammoth"
                 /\ ~out.result.error.present
                 /\ ~fellBack
            /\ fellBack => ~PrimaryYieldsText(mammoth, e)
            /\ fellBack /\ ~out.result.error.present =>
                 /\ ~IsBlank(out.result.text)
                 /\ out.result.source = "direct-zip-extraction"
                 /\ out.result.fallbackMethod
  /\ backendResult.source = "mammoth" =>
       ~Called("extractDocxWithoutMammoth") /\ ~IsBlank(backendResult.text)
  /\ Called("extractDocxWithoutMammoth") /\ BackendReturned /\ ~backendResult.error.present =>
       /\ backendResult.source = "direct-zip-extraction"
       /\ backendResult.fallbackMethod
       /\ ~IsBlank(backendResult.text)

\* the ZIP fallback ran after mammoth returned blank text, and its text came back
C25_Witness ==
  /\ BackendReturned
  /\ Called("mammoth.extractRawText")
  /\ Called("extractDocxWithoutMammoth")
  /\ backendResult.source = "direct-zip-extraction"
  /\ backendResult.fallbackMethod
  /\ ~IsBlank(backendResult.text)

\* parseDocument returned the backend's result at one of the return
\* statements of the main policy (lines 688, 695, 700 and their likes)
AcceptedByMainPolicy == returnedAt \in {"direct", "word-count", "score"}

\* runOcr has not returned, so bestResult is as the backend evaluation left it
OcrNotReturned == ocrResult = NoResult

\* C26: when the backend's result was not accepted by the main policy but
\* the best-so-far text has at least 10 words, parseDocument returns the
\* best-so-far result, without an error and without invoking OCR, whatever
\* its score.
C26_LowBarAcceptance ==
  /\ BackendReturned
  /\ OcrNotReturned
  /\ ~AcceptedByMainPolicy
  /\ countWords(bestResult.text) >= 10
  => /\ pc = "done"
     /\ returnedAt = "low-bar"
     /\ result = bestResult
     /\ ~result.error.present
     /\ ~Called("runOcr")

\* a text of ten words whose score is below 0.2 is returned with OCR enabled
C26_Witness ==
  /\ BackendReturned
  /\ returnedAt = "low-bar"
  /\ countWords(bestResult.text) >= 10
  /\ ScoreLT(bestResult.score, Frac(2, 10))
  /\ opts.enableOcr
  /\ result = bestResult

\* C27: parseDocument invokes runOcr only if enableOcr is true and, at that
\* point, the best-so-far text is empty or the best-so-far score is below
\* 0.2; with enableOcr false runOcr is never invoked.
C27_OcrOnlyWhenWanted ==
  /\ Called("runOcr") => opts.enableOcr
  /\ pc = "awaitOcr" =>
       /\ Called("runOcr")
       /\ bestResult.text = <<>> \/ ScoreLT(bestResult.score, Frac(2, 10))

\* runOcr is awaited with a best-so-far text that is not empty
C27_Witness ==
  /\ pc = "awaitOcr"
  /\ Called("runOcr")
  /\ opts.enableOcr
  /\ bestResult.text # <<>>
  /\ ScoreLT(bestResult.score, Frac(2, 10))

\* runOcr has returned a result that carries text
OcrReturnedText == ocrResult # NoResult /\ ocrResult.text # <<>>

\* the text has at least max(10, minWordCount / 2) words
EnoughOcrWords(t) == countWords(t) >= 10 /\ 2 * countWords(t) >= opts.minWordCount

\* the step in which runOcr returns a text of too few words
OcrFallsShort ==
  /\ pc = "awaitOcr"
  /\ pc' = "done"
  /\ ocrResult'.text # <<>>
  /\ ~EnoughOcrWords(ocrResult'.text)

\* C28: when OCR runs and returns text, parseDocument returns the OCR
\* result directly iff it has at least max(10, minWordCount / 2) words;
\* with fewer words it replaces the best-so-far result only if its score is
\* strictly higher than the best-so-far score.
C28_OcrAcceptance ==
  /\ [](OcrReturnedText =>
          /\ pc = "done"
          /\ returnedAt = "ocr" <=> EnoughOcrWords(ocrResult.text)
          /\ returnedAt = "ocr" => result = ocrResult
          /\ returnedAt # "ocr" => returnedAt = "final")
  /\ [][OcrFallsShort =>
          IF ScoreGT(ocrResult'.score, bestResult.score)
          THEN bestResult' = ocrResult'
          ELSE bestResult' = bestResult]_vars

\* an OCR text of twelve words, fewer than minWordCount / 2, has replaced a
\* best-so-far text of lower score
C28_Witness ==
  /\ OcrReturnedText
  /\ countWords(ocrResult.text) >= 10
  /\ ~EnoughOcrWords(ocrResult.text)
  /\ returnedAt = "final"
  /\ bestResult = ocrResult
  /\ backendResult.text # <<>>
  /\ ScoreGT(ocrResult.score, backendResult.score)

\* the results that were produced and not accepted in a run that went on
\* to line 791
NonAccepted ==
  {backendResult} \cup (IF ocrResult # NoResult THEN {ocrResult} ELSE {})

\* C29: during a run the score of bestResult never decreases, and when no
\* result is accepted early the result returned at the end is the one with
\* the highest score among the backend result and the OCR result.
C29_BestIsHighestScoring ==
  /\ [][ScoreGE(bestResult'.score, bestResult.score)]_vars
  /\ [](pc = "done" /\ returnedAt = "final" =>
          /\ \A c \in NonAccepted : ScoreGE(result.score, c.score)
          /\ result.text # <<>> => result \in NonAccepted)

\* parseDocument ended at lines 795-819: nothing usable was produced
TerminalFailure == pc = "done" /\ returnedAt = "final" /\ result.error.present

\* C30: when nothing usable was produced the failure code follows the
\* family the file was sniffed as: DOCX_NO_TEXT_EXTRACTED for every file of
\* the Word family, whether its extension or only its media type says so,
\* and NO_TEXT_EXTRACTED for PDF and text files.
C30_FailureCodeFollowsFamily ==
  TerminalFailure =>
    result.error.code = (IF BranchTaken = "word"
                         THEN "DOCX_NO_TEXT_EXTRACTED"
                         ELSE "NO_TEXT_EXTRACTED")

\* C31: the terminal no-text failure (DOCX_NO_TEXT_EXTRACTED or
\* NO_TEXT_EXTRACTED) is actionable exactly when OCR was not attempted in
\* the run, and not actionable when OCR was attempted and also failed.
C31_ActionableUnlessOcrTried ==
  TerminalFailure =>
    /\ result.error.code \in {"DOCX_NO_TEXT_EXTRACTED", "NO_TEXT_EXTRACTED"}
    /\ result.error.actionable <=> ~Called("runOcr")

\* the number of text items on pages 1..k
RECURSIVE ItemsUpTo(_, _)
ItemsUpTo(pages, k) == IF k = 0 THEN 0 ELSE ItemsUpTo(pages, k - 1) + Len(pages[k])

\* the pages pdfHasTextLayer asked for, in the order of the calls
SampledPages(steps) ==
  LET calls == SelectSeq(steps, LAMBDA st : st[1] = "getPage")
  IN [i \in 1..Len(calls) |-> calls[i][2]]

\* the PDFs that pdf.js opens
OpenablePdfs == {e \in PdfEnvs : e.bufferOk /\ ~e.open.throws}

\* C32: the text-layer check samples pages 1..min(numPages, 3) in order,
\* asks for no page beyond the third, stops as soon as more than 20 text
\* items have been seen, and reports a text layer iff the number of text
\* items seen is greater than zero.
C32_TextLayerSampling ==
  pc = "awaitPdf" /\ pdfjs = "real" =>
    \A e \in OpenablePdfs :
      LET r == pdfHasTextLayer(pdfjs, e)
          sampled == SampledPages(r.steps)
          k == Len(sampled)
          pages == e.open.pages
          read == IF k > 0 /\ sampled[k] = e.badPage THEN k - 1 ELSE k
      IN /\ sampled = [i \in 1..k |-> i]
         /\ k <= Min(Len(pages), 3)
         /\ \A i \in 1..(k - 1) : ItemsUpTo(pages, i) <= 20
         /\ k < Min(Len(pages), 3) /\ read = k => ItemsUpTo(pages, k) > 20
         /\ r.has <=> ItemsUpTo(pages, read) > 0

\* the pages asked for after the last getDocument call: those of the walk
WalkedPages(steps) ==
  LET opens == {i \in DOMAIN steps : steps[i][1] = "getDocument"}
      last == CHOOSE i \in opens : \A j \in opens : j <= i
  IN SampledPages(SubSeq(steps, last + 1, Len(steps)))

\* C33: the page walk of parsePdf visits pages 1..min(pageCount, maxPages)
\* in increasing order, once each: for every maxPages the number of pages
\* walked never exceeds maxPages, the pages list has the entries
\* n = 1, ..., k with k = min(pageCount, maxPages), meta.extractedPages = k
\* and meta.pageCount = pageCount.
C33_PageWalkCapped ==
  pc = "awaitPdf" /\ pdfjs = "real" =>
    \A e \in OpenablePdfs :
      LET out == parsePdf(file, opts, pdfjs, e)
          w == PdfWalk(opts, e.open)
          pageCount == Len(e.open.pages)
          k == Min(pageCount, opts.maxPages)
      IN out.result.source = "pdf.js" =>
           /\ WalkedPages(out.steps) = [i \in 1..k |-> i]
           /\ Len(WalkedPages(out.steps)) <= opts.maxPages
           /\ w.pages = [i \in 1..k |-> i]
           /\ w.extractedPages = k
           /\ w.pageCount = pageCount

\* C34: every result that parseDocument returns without an error has text
\* with at least one non-whitespace character: a backend text made only of
\* whitespace is never accepted as a successful extraction.
C34_SuccessHasVisibleText ==
  pc = "done" /\ returnedAt # "" /\ ~result.error.present => ~IsBlank(result.text)

\* C35: extracted text is never discarded: when the format backend
\* returned text with a non-whitespace character and no error, and OCR is
\* disabled or produced no text, parseDocument returns that text without
\* an error, whatever the score of the backend result, 0 included.
C35_BackendTextNeverDiscarded ==
  /\ pc = "done"
  /\ BackendReturned
  /\ ~IsBlank(backendResult.text)
  /\ ~backendResult.error.present
  /\ ~opts.enableOcr \/ ocrResult.text = <<>>
  => /\ result.text = backendResult.text
     /\ ~result.error.present

MaxOps == 4
MaxDocs == 2

InitialTexts == { <<>>, <<"a.">>, <<"a.", "b.">> }
EditTexts == {"a.", "c."}

parserVars ==
  <<file, opts, pdfjs, mammoth, Tesseract, pc, hung, bestResult, result, returnedAt,
    backendResult, ocrResult, trace, aborted, timerArmed, leakedUrls, runs, probe>>

\* lines 71-88, on the sentences found in the text
splitIntoSentences(texts) ==
  [i \in 1..Len(texts) |-> [text |-> texts[i], suggestion |-> texts[i], status |-> "unchanged"]]

\* lines 154-171: [history, historyIndex] after addToHistory(doc)
addToHistory(doc) ==
  LET newHistory == SubSeq(history, 1, historyIndex + 1)
  IN [history |-> Append(newHistory, [doc EXCEPT !.versionHistory = <<>>]),
      historyIndex |-> Len(newHistory)]

\* lines 226-247
createSnapshot(document) ==
  LET currentVersion == IF document.version = 0 THEN 1 ELSE document.version
  IN [document EXCEPT
        !.version = currentVersion + 1,
        !.versionHistory = Append(@, [versionNumber |-> currentVersion,
                                      sentences |-> document.sentences])]

\* docs.map(doc => doc.id === d.id ? d : doc)
ReplaceDocument(docs, d) ==
  [i \in DOMAIN docs |-> IF docs[i].id = d.id THEN d ELSE docs[i]]

Logged(op) == [session EXCEPT !.ops = Append(@, op), !.count = @ + 1]

MoreOps == session.count < MaxOps

\* the document createNewDocument and uploadDocument build (lines 285-306,
\* 797-817), hasInitialVersion: an initial version is recorded
NewDocument(texts, hasInitialVersion) ==
  LET sentences == splitIntoSentences(texts)
  IN [id |-> Len(documents) + 1, sentences |-> sentences, version |-> 1,
      versionHistory |-> IF hasInitialVersion
                         THEN << [versionNumber |-> 1, sentences |-> sentences] >>
                         ELSE <<>>]

\* lines 307-316, 818-827
OpenNewDocument(newDoc, op) ==
  /\ documents' = Append(documents, newDoc)
  /\ currentDocument' = newDoc
  /\ history' = << newDoc >>
  /\ historyIndex' = 0
  /\ cloudSaves' = cloudSaves \cup {newDoc}
  /\ session' = [NoSession EXCEPT !.ops = << op >>, !.count = session.count + 1]
  /\ UNCHANGED <<autosaveTimer, parserVars>>

\* lines 283-317
createNewDocument ==
  /\ Len(documents) < MaxDocs /\ MoreOps
  /\ \E texts \in InitialTexts : OpenNewDocument(NewDocument(texts, texts # <<>>), "create")

\* lines 774-843, as the first operation of a session (the deferred
\* generateSuggestions of line 829 then finds currentDocument null and
\* returns at line 389); parseDocument returned the text
uploadDocument ==
  /\ currentDocument = NoDocument
  /\ documents = <<>>
  /\ \E texts \in InitialTexts \ {<<>>} : OpenNewDocument(NewDocument(texts, TRUE), "upload")

\* lines 249-265; scheduleAutosave (lines 203-217) captures the
\* currentDocument of the render the handler belongs to
UpdateSentence(i, newText, status) ==
  LET h == addToHistory(currentDocument)
  IN /\ history' = h.history
     /\ historyIndex' = h.historyIndex
     /\ currentDocument' =
          [currentDocument EXCEPT
             !.sentences[i] = [@ EXCEPT !.text = newText, !.status = status]]
     /\ autosaveTimer' = currentDocument
     /\ session' = [Logged("edit") EXCEPT !.before = Append(@, currentDocument.sentences)]
     /\ UNCHANGED <<documents, cloudSaves, parserVars>>

updateSentence ==
  /\ currentDocument # NoDocument /\ MoreOps
  /\ \E i \in DOMAIN currentDocument.sentences, newText \in EditTexts :
       UpdateSentence(i, newText, "edited")

\* lines 267-273
acceptSuggestion ==
  /\ currentDocument # NoDocument /\ MoreOps
  /\ \E i \in DOMAIN currentDocument.sentences :
       UpdateSentence(i, currentDocument.sentences[i].suggestion, "accepted")

\* lines 275-281
rejectSuggestion ==
  /\ currentDocument # NoDocument /\ MoreOps
  /\ \E i \in DOMAIN currentDocument.sentences :
       UpdateSentence(i, currentDocument.sentences[i].text, "rejected")

\* lines 491-498; history[historyIndex - 1] of the code is history[historyIndex] here
undo ==
  /\ MoreOps
  /\ historyIndex > 0
  /\ currentDocument' = history[historyIndex]
  /\ historyIndex' = historyIndex - 1
  /\ autosaveTimer' = currentDocument
  /\ session' = [Logged("undo") EXCEPT !.beforeUndo = currentDocument.sentences]
  /\ UNCHANGED <<documents, history, cloudSaves, parserVars>>

\* lines 500-507
redo ==
  /\ MoreOps
  /\ historyIndex < Len(history) - 1
  /\ currentDocument' = history[historyIndex + 2]
  /\ historyIndex' = historyIndex + 1
  /\ autosaveTimer' = currentDocument
  /\ session' = Logged("redo")
  /\ UNCHANGED <<documents, history, cloudSaves, parserVars>>

\* lines 509-520
saveVersion ==
  /\ currentDocument # NoDocument /\ MoreOps
  /\ LET updatedDocument == createSnapshot(currentDocument)
     IN /\ currentDocument' = updatedDocument
        /\ documents' = ReplaceDocument(documents, updatedDocument)
        /\ cloudSaves' = cloudSaves \cup {updatedDocument}
  /\ session' = Logged("save")
  /\ UNCHANGED <<history, historyIndex, autosaveTimer, parserVars>>

\* lines 569-587
acceptAllSuggestions ==
  /\ currentDocument # NoDocument /\ MoreOps
  /\ LET h == addToHistory(currentDocument)
         updatedSentences ==
           [i \in DOMAIN currentDocument.sentences |->
              [currentDocument.sentences[i] EXCEPT
                 !.text = currentDocument.sentences[i].suggestion, !.status = "accepted"]]
     IN /\ history' = h.history
        /\ historyIndex' = h.historyIndex
        /\ currentDocument' =
             createSnapshot([currentDocument EXCEPT !.sentences = updatedSentences])
  /\ autosaveTimer' = currentDocument
  /\ session' = Logged("acceptAll")
  /\ UNCHANGED <<documents, cloudSaves, parserVars>>

\* lines 750-772: the texts are sentences already, so re-splitting their
\* join gives them back, with fresh suggestions and status
splitAndAlignSentences ==
  /\ currentDocument # NoDocument /\ MoreOps
  /\ LET h == addToHistory(currentDocument)
         texts == [i \in DOMAIN currentDocument.sentences |->
                     currentDocument.sentences[i].text]
     IN /\ history' = h.history
        /\ historyIndex' = h.historyIndex
        /\ currentDocument' =
             createSnapshot([currentDocument EXCEPT !.sentences = splitIntoSentences(texts)])
  /\ autosaveTimer' = currentDocument
  /\ session' = Logged("split")
  /\ UNCHANGED <<documents, cloudSaves, parserVars>>

\* lines 979-1011
rollbackToVersion ==
  /\ MoreOps
  /\ \E docId \in DOMAIN documents :
       \E versionId \in DOMAIN documents[docId].versionHistory :
         LET document == documents[docId]
             version == document.versionHistory[versionId]
             updatedDocument ==
               [document EXCEPT
                  !.sentences = version.sentences,
                  !.version = document.version + 1,
                  !.versionHistory = Append(@, [versionNumber |-> document.version + 1,
                                                sentences |-> version.sentences])]
         IN /\ documents' = ReplaceDocument(documents, updatedDocument)
            /\ currentDocument' = IF currentDocument # NoDocument /\ currentDocument.id = docId
                                  THEN updatedDocument ELSE currentDocument
            /\ cloudSaves' = cloudSaves \cup {updatedDocument}
  /\ session' = Logged("rollback")
  /\ UNCHANGED <<history, historyIndex, autosaveTimer, parserVars>>

\* lines 207-216: the autosave timer fires
AutosaveFires ==
  /\ autosaveTimer # NoDocument
  /\ documents' = ReplaceDocument(documents, autosaveTimer)
  /\ cloudSaves' = cloudSaves \cup {autosaveTimer}
  /\ autosaveTimer' = NoDocument
  /\ UNCHANGED <<currentDocument, history, historyIndex, session, parserVars>>

\* lines 183-200: a simulated cloud save completes (lastSaved is not modelled)
CloudSaveCompletes ==
  /\ \E document \in cloudSaves :
       /\ documents' = ReplaceDocument(documents, document)
       /\ cloudSaves' = cloudSaves \ {document}
  /\ UNCHANGED <<currentDocument, history, historyIndex, autosaveTimer, session, parserVars>>

EditorInit ==
  /\ NoInvocation
  /\ probe = <<>>

EditorNext ==
  \/ createNewDocument
  \/ uploadDocument
  \/ updateSentence
  \/ acceptSuggestion
  \/ rejectSuggestion
  \/ undo
  \/ redo
  \/ saveVersion
  \/ acceptAllSuggestions
  \/ splitAndAlignSentences
  \/ rollbackToVersion
  \/ AutosaveFires
  \/ CloudSaveCompletes

EditorSpec == EditorInit /\ [][EditorNext]_vars

\* the operations logged since the document was opened are k edits
\* followed by j undos
EditsThenUndos(k, j) ==
  /\ Len(session.ops) = 1 + k + j
  /\ session.ops[1] \in {"create", "upload"}
  /\ \A n \in 2..(1 + k) : session.ops[n] = "edit"
  /\ \A n \in (2 + k)..(1 + k + j) : session.ops[n] = "undo"

\* C37: after createNewDocument or uploadDocument and k >= 1 sentence edits
\* (updateSentence, acceptSuggestion, rejectSuggestion), one undo sets the
\* current document's sentences to those that were current immediately
\* before the most recent edit, and j <= k consecutive undos step back
\* through the last j edits one at a time: after the j-th undo the sentences
\* are those that were current before the (k - j + 1)-th edit.
C37_UndoRestoresPreviousState ==
  \A k \in 1..MaxOps : \A j \in 1..k :
    EditsThenUndos(k, j) => currentDocument.sentences = session.before[k - j + 1]

\* the last two operations were an undo and, right after it, a redo
UndoThenRedo ==
  LET n == Len(session.ops)
  IN /\ n >= 3
     /\ session.ops[n - 1] = "undo"
     /\ session.ops[n] = "redo"

\* C38: undo followed immediately by redo is a round trip: whenever canUndo
\* holds, performing undo and then redo leaves the current document's
\* sentences equal to what they were before the undo; and once a document
\* exists historyIndex stays within 0..history.length-1.
C38_UndoRedoRoundTrip ==
  /\ UndoThenRedo => currentDocument.sentences = session.beforeUndo
  /\ currentDocument # NoDocument => historyIndex \in 0..(Len(history) - 1)

\* the documents whose versions can be seen: the open one and the stored ones
VisibleDocuments ==
  {documents[i] : i \in DOMAIN documents} \cup ({currentDocument} \ {NoDocument})

\* only versioning operations were performed since the provider was mounted
OnlyVersioning ==
  /\ session.count = Len(session.ops)
  /\ \A n \in DOMAIN session.ops :
       session.ops[n] \in {"create", "upload", "save", "acceptAll", "split", "rollback"}

\* C39: after any sequence of createNewDocument/uploadDocument, saveVersion,
\* acceptAllSuggestions, splitAndAlignSentences and rollbackToVersion, the
\* versionNumber values of a document's versionHistory are strictly
\* increasing in list order (no two entries share a number) and the
\* document's version is at least every recorded versionNumber.
C39_VersionNumbersIncrease ==
  OnlyVersioning =>
    \A d \in VisibleDocuments :
      /\ \A m, n \in DOMAIN d.versionHistory :
           m < n => d.versionHistory[m].versionNumber < d.versionHistory[n].versionNumber
      /\ \A n \in DOMAIN d.versionHistory : d.version >= d.versionHistory[n].versionNumber

====
